---- MODULE Spec2Model ----
(***************************************************************************)
(* CPU scheduler simulator: the Process state machine, the Scheduler base  *)
(* class and the four algorithms (Round Robin, Priority, Multilevel Queue, *)
(* Multilevel Feedback Queue), each run() taken one loop phase at a time.  *)
(*                                                                         *)
(* Conventions.  A std::vector index i of the source is position i+1 of    *)
(* the sequence here; "no index" (-1) and a null pointer are 0.  A         *)
(* Process* into the processes vector is the position it points at.        *)
(* One loop iteration of a run() is two steps: the part up to the call of  *)
(* Process::execute (pc "loop" -> "exec") and the part from that call to   *)
(* the end of the iteration (pc "exec" -> "loop").                         *)
(***************************************************************************)
EXTENDS Integers, Sequences, FiniteSets, TLC

\* ------------------------------------------------------------------ bounds
MaxProcsRR == 3
MaxProcsPrio == 2
MaxProcsMLQ == 2
MaxProcsMLFQ == 2
MaxBurst == 2
MaxArrival == 2
MaxQuantum == 2
MaxCS == 1
MaxPriority == 1
MaxQueues == 3
MaxAgingThreshold == 2
MaxRuns == 2
MaxClock == 8
MaxEvents == 12
MaxSlice == 3
MaxLongBurst == 5

\* SchedulerConfig's default time quantum (used by Round Robin when the
\* constructor is given a non-positive quantum).
DefaultTimeQuantum == 4

\* Priority values offered to the Multilevel Queue scheduler: both sides of
\* each band edge of assignToQueue.
MLQPriorities == {2, 3, 5, 6}

Algorithms == {"RR", "PRIO", "MLQ", "MLFQ"}

Min(a, b) == IF a < b THEN a ELSE b

\* ------------------------------------------------------------------ Process
Process(pid, priority, burstTime, arrivalTime) ==
    [pid |-> pid, priority |-> priority, burstTime |-> burstTime,
     remainingTime |-> burstTime, arrivalTime |-> arrivalTime,
     waitingTime |-> 0, turnaroundTime |-> 0, responseTime |-> -1,
     completionTime |-> 0, queueLevel |-> 0, hasStarted |-> FALSE,
     state |-> "NEW"]

\* A return value that reports the slice asked for, not the time used.
executedTimeWholeSlice(p, timeSlice) ==
    IF p.remainingTime = 0 THEN 0 ELSE timeSlice

\* The value Process::execute returns.
executedTime(p, timeSlice) ==
    IF p.remainingTime = 0 THEN 0 ELSE Min(timeSlice, p.remainingTime)

\* An execute() that parks a process with work left in Waiting.
executeBlocks(p, timeSlice) ==
    IF p.remainingTime = 0
    THEN p
    ELSE LET left == p.remainingTime - Min(timeSlice, p.remainingTime)
         IN  [p EXCEPT !.hasStarted = TRUE,
                       !.remainingTime = left,
                       !.state = IF left = 0 THEN "TERMINATED" ELSE "WAITING"]

\* An execute() that leaves the state update at Running when the work is done.
executeLeavesRunning(p, timeSlice) ==
    IF p.remainingTime = 0
    THEN p
    ELSE [p EXCEPT !.hasStarted = TRUE,
                   !.remainingTime = @ - Min(timeSlice, p.remainingTime),
                   !.state = "RUNNING"]

\* The process after Process::execute(timeSlice).
execute(p, timeSlice) ==
    IF p.remainingTime = 0
    THEN p
    ELSE LET left == p.remainingTime - Min(timeSlice, p.remainingTime)
         IN  [p EXCEPT !.hasStarted = TRUE,
                       !.remainingTime = left,
                       !.state = IF left = 0 THEN "TERMINATED" ELSE "RUNNING"]

\* A reset that forgets to clear the queue level.
ProcessResetKeepsLevel(p) ==
    [p EXCEPT !.remainingTime = p.burstTime, !.waitingTime = 0,
              !.turnaroundTime = 0, !.responseTime = -1,
              !.completionTime = 0,
              !.hasStarted = FALSE, !.state = "NEW"]

ProcessReset(p) ==
    [p EXCEPT !.remainingTime = p.burstTime, !.waitingTime = 0,
              !.turnaroundTime = 0, !.responseTime = -1,
              !.completionTime = 0, !.queueLevel = 0,
              !.hasStarted = FALSE, !.state = "NEW"]

isCompleted(p) == p.remainingTime = 0

\* A dispatch that stamps the response time on every dispatch.
recordResponseAlways(p, now) ==
    [p EXCEPT !.responseTime = now - p.arrivalTime, !.hasStarted = TRUE]

\* "Record response time on first execution" of the four run() loops.
recordResponse(p, now) ==
    IF p.hasStarted THEN p
    ELSE [p EXCEPT !.responseTime = now - p.arrivalTime, !.hasStarted = TRUE]

\* ---------------------------------------------------------------- sequences
Indices(s) == [i \in 1..Len(s) |-> i]

\* The positions of s, in order, that satisfy Test.
Positions(s, Test(_)) == SelectSeq(Indices(s), Test)

InSeq(x, s) == \E k \in 1..Len(s) : s[k] = x

RECURSIVE SumOver(_, _)
SumOver(f, n) == IF n = 0 THEN 0 ELSE f[n] + SumOver(f, n - 1)

\* ------------------------------------------------------------ Scheduler base
ExecutionEvent(pid, start, end, isSwitch) ==
    [processId |-> pid, startTime |-> start, endTime |-> end,
     isContextSwitch |-> isSwitch]

\* An entry stamped with the start of the entry before it.
recordEventSinceLastStart(tl, pid, start, end, isSwitch) ==
    Append(tl, ExecutionEvent(pid, IF tl = <<>> THEN start ELSE tl[Len(tl)].startTime,
                              end, isSwitch))

recordEvent(tl, pid, start, end, isSwitch) ==
    Append(tl, ExecutionEvent(pid, start, end, isSwitch))

\* Scheduler::checkArrivals: whether it promotes p at the given time.
ArrivesAt(p, time) == p.arrivalTime = time /\ p.state = "NEW"

\* The processes vector after Scheduler::checkArrivals(time).
checkArrivals(procs, time) ==
    [i \in 1..Len(procs) |->
        IF ArrivesAt(procs[i], time)
        THEN [procs[i] EXCEPT !.state = "READY"] ELSE procs[i]]

\* What checkArrivals(time) appends to readyQueue (copies, named by PID).
arrivedPids(procs, time) ==
    LET Hit(i) == ArrivesAt(procs[i], time)
        hits == Positions(procs, Hit)
    IN  [k \in 1..Len(hits) |-> procs[hits[k]].pid]

\* A switch charged whenever a process ran before, the same one included.
switchAfterAnyProcess(procs, from, to) == from # 0 /\ to # 0

\* A switch charged on every dispatch, the first one included.
switchOnEveryDispatch(procs, from, to) == to # 0

\* Scheduler::performContextSwitch's condition (0 is the null pointer).
switchNeeded(procs, from, to) ==
    from # 0 /\ to # 0 /\ procs[from].pid # procs[to].pid

isComplete(procs) == \A i \in 1..Len(procs) : procs[i].state = "TERMINATED"

\* Metrics after Metrics::reset().
ZeroMetrics ==
    [processCount |-> 0, sumWaiting |-> 0, sumTurnaround |-> 0,
     sumResponse |-> 0, totalExecutionTime |-> 0, totalIdleTime |-> 0,
     totalContextSwitches |-> 0, contextSwitchOverhead |-> 0,
     usefulTime |-> 0]

\* Idle time as calculateMetrics derives it from the timeline: the gaps
\* before entries that are neither context switches nor idle markers.
RECURSIVE idleScan(_, _, _, _)
idleScan(tl, k, lastEndTime, idleTime) ==
    IF k > Len(tl) THEN idleTime
    ELSE IF ~tl[k].isContextSwitch /\ tl[k].processId >= 0
         THEN idleScan(tl, k + 1, tl[k].endTime,
                       IF tl[k].startTime > lastEndTime
                       THEN idleTime + (tl[k].startTime - lastEndTime)
                       ELSE idleTime)
         ELSE idleScan(tl, k + 1, lastEndTime, idleTime)

\* Metrics that count at least one process, so that no average divides by 0.
calculateMetricsAtLeastOne(procs, tl, now, switches, cfg) ==
    LET idle == idleScan(tl, 1, 0, 0)
        overhead == switches * cfg.contextSwitchTime
    IN  [processCount |-> IF Len(procs) = 0 THEN 1 ELSE Len(procs),
         sumWaiting |-> SumOver([i \in 1..Len(procs) |-> procs[i].waitingTime], Len(procs)),
         sumTurnaround |-> SumOver([i \in 1..Len(procs) |-> procs[i].turnaroundTime], Len(procs)),
         sumResponse |-> SumOver([i \in 1..Len(procs) |-> procs[i].responseTime], Len(procs)),
         totalExecutionTime |-> now,
         totalIdleTime |-> idle,
         totalContextSwitches |-> switches,
         contextSwitchOverhead |-> overhead,
         usefulTime |-> IF now > 0 THEN now - idle - overhead ELSE 0]

\* Scheduler::calculateMetrics with the Metrics calls it makes.  The three
\* averages are kept as sum and count; cpuUtilization is usefulTime over
\* totalExecutionTime, computed only when the total time is positive.
calculateMetrics(procs, tl, now, switches, cfg) ==
    LET idle == idleScan(tl, 1, 0, 0)
        overhead == switches * cfg.contextSwitchTime
    IN  [processCount |-> Len(procs),
         sumWaiting |-> SumOver([i \in 1..Len(procs) |-> procs[i].waitingTime], Len(procs)),
         sumTurnaround |-> SumOver([i \in 1..Len(procs) |-> procs[i].turnaroundTime], Len(procs)),
         sumResponse |-> SumOver([i \in 1..Len(procs) |-> procs[i].responseTime], Len(procs)),
         totalExecutionTime |-> now,
         totalIdleTime |-> idle,
         totalContextSwitches |-> switches,
         contextSwitchOverhead |-> overhead,
         usefulTime |-> IF now > 0 THEN now - idle - overhead ELSE 0]

\* -------------------------------------------------------------------- state
VARIABLES
    alg,                \* which Scheduler subclass the instance is
    config,             \* SchedulerConfig plus the constructor arguments
    processes,          \* Scheduler::processes
    readyQueue,         \* Scheduler::readyQueue (PIDs of the copies)
    timeline,           \* Scheduler::timeline
    metrics,            \* Scheduler::metrics
    currentTime,        \* Scheduler::currentTime
    contextSwitches,    \* Scheduler::contextSwitches
    currentProcess,     \* Scheduler::currentProcess
    pc,                 \* "idle" | "loop" | "exec" | "done"
    runNo,              \* calls of run() made so far
    processQueue,       \* RoundRobinScheduler::processQueue
    lastProcess,        \* run()'s local lastProcess (Round Robin)
    processIdx,         \* the process taken from a queue in this iteration
    currentProcessIdx,  \* run()'s local currentProcessIdx (Priority)
    waitingSince,       \* PriorityScheduler::waitingSince, -1 for no entry
    completedProcesses, \* run()'s local completedProcesses
    queues,             \* MultilevelQueue / MLFQ queues
    activeQueue,        \* run()'s local activeQueue
    lastBoostTime,      \* MultilevelFeedbackQueueScheduler::lastBoostTime
    firstRun,           \* what the first run() left behind (history)
    lastCall,           \* the last direct call of a member function (history)
    constructed         \* the processes as they were added (history)

vars == <<alg, config, processes, readyQueue, timeline, metrics, currentTime,
          contextSwitches, currentProcess, pc, runNo, processQueue,
          lastProcess, processIdx, currentProcessIdx, waitingSince,
          completedProcesses, queues, activeQueue, lastBoostTime, firstRun,
          lastCall, constructed>>

baseVars == <<alg, config, runNo, firstRun>>
rrVars == <<processQueue, lastProcess>>
prioVars == <<currentProcessIdx, waitingSince>>
mlVars == <<queues, activeQueue, lastBoostTime>>

\* ---------------------------------------------------------- configurations
\* What the constructor derives: RoundRobinScheduler::timeQuantum.
rrTimeQuantum(cfg) == IF cfg.quantum > 0 THEN cfg.quantum ELSE cfg.timeQuantum

\* A dispatch that always asks for a single tick.
rrOneTick(cfg, p) == 1

\* run(): the time one dispatch executes, the quantum or the remaining time.
rrExecuteTime(cfg, p) == Min(rrTimeQuantum(cfg), p.remainingTime)

Config(timeQuantum, cs, numQueues, agingEnabled, agingThreshold, preemptive, quantum) ==
    [timeQuantum |-> timeQuantum, contextSwitchTime |-> cs,
     numQueues |-> numQueues, agingEnabled |-> agingEnabled,
     agingThreshold |-> agingThreshold, preemptive |-> preemptive,
     quantum |-> quantum]

DefaultNumQueues == 3
DefaultAgingThreshold == 10

ConfigsRR ==
    {Config(DefaultTimeQuantum, cs, DefaultNumQueues, TRUE, DefaultAgingThreshold, FALSE, q) :
        cs \in 0..MaxCS, q \in 0..MaxQuantum}

ConfigsPrio ==
    {Config(DefaultTimeQuantum, cs, DefaultNumQueues, TRUE, th, pre, 0) :
        cs \in 0..MaxCS, th \in 1..MaxAgingThreshold, pre \in BOOLEAN}
    \cup
    {Config(DefaultTimeQuantum, cs, DefaultNumQueues, FALSE, DefaultAgingThreshold, pre, 0) :
        cs \in 0..MaxCS, pre \in BOOLEAN}

ConfigsMLQ ==
    {Config(tq, cs, nq, TRUE, DefaultAgingThreshold, FALSE, 0) :
        tq \in 1..MaxQuantum, cs \in 0..MaxCS, nq \in 1..MaxQueues}

ConfigsMLFQ ==
    {Config(tq, cs, nq, ag, 1, FALSE, 0) :
        tq \in 1..MaxQuantum, cs \in 0..MaxCS, nq \in 1..MaxQueues, ag \in BOOLEAN}

\* Process lists of n processes with PIDs 0..n-1 in input order.
ProcessLists(n, priorities) ==
    {[i \in 1..n |-> Process(i - 1, f[i][1], f[i][2], f[i][3])] :
        f \in [1..n -> priorities \X (1..MaxBurst) \X (0..MaxArrival)]}

ProcessListsUpTo(maxN, priorities) ==
    UNION {ProcessLists(n, priorities) : n \in 0..maxN}

\* --------------------------------------------------------- Multilevel Queue
\* MultilevelQueueScheduler::assignToQueue (queue levels count from 0).
assignToQueue(p, numQueues) ==
    IF p.priority <= 2 THEN 0
    ELSE IF p.priority <= 5 /\ numQueues > 1 THEN 1
    ELSE Min(numQueues - 1, 2)

\* queueConfigs[level].timeQuantum as the constructor sets it.
mlqQuantum(level, cfg) ==
    IF level = 0 THEN cfg.timeQuantum \div 2
    ELSE IF level = 1 THEN cfg.timeQuantum
    ELSE cfg.timeQuantum * 2

\* MultilevelQueueScheduler::addProcess.
mlqAddProcess(p, numQueues) == [p EXCEPT !.queueLevel = assignToQueue(p, numQueues)]

EmptyQueues(numQueues) == [q \in 0..(numQueues - 1) |-> <<>>]

\* A scan that returns the highest-numbered non-empty queue.
getLastNonEmptyQueue(qs, numQueues) ==
    IF \E q \in 0..(numQueues - 1) : qs[q] # <<>>
    THEN CHOOSE q \in 0..(numQueues - 1) :
            qs[q] # <<>> /\ \A r \in (q + 1)..(numQueues - 1) : qs[r] = <<>>
    ELSE -1

\* getActiveQueue / getHighestPriorityQueue: lowest non-empty level, else -1.
getActiveQueue(qs, numQueues) ==
    IF \E q \in 0..(numQueues - 1) : qs[q] # <<>>
    THEN CHOOSE q \in 0..(numQueues - 1) :
            qs[q] # <<>> /\ \A r \in 0..(q - 1) : qs[r] = <<>>
    ELSE -1

\* --------------------------------------------------------------------- Init
\* No member function has been called directly yet.
NoCall == [op |-> "none"]

InitCommon ==
    /\ readyQueue = <<>>
    /\ timeline = <<>>
    /\ metrics = ZeroMetrics
    /\ currentTime = 0
    /\ contextSwitches = 0
    /\ currentProcess = 0
    /\ pc = "idle"
    /\ runNo = 0
    /\ processQueue = <<>>
    /\ lastProcess = 0
    /\ processIdx = 0
    /\ currentProcessIdx = 0
    /\ waitingSince = [pid \in 0..(Len(processes) - 1) |-> -1]
    /\ completedProcesses = 0
    /\ activeQueue = -1
    /\ lastBoostTime = 0
    /\ firstRun = <<>>
    /\ lastCall = NoCall
    /\ constructed = processes

InitRR ==
    /\ alg = "RR"
    /\ config \in ConfigsRR
    /\ processes \in ProcessListsUpTo(MaxProcsRR, {0})
    /\ queues = <<>>
    /\ InitCommon

InitPrio ==
    /\ alg = "PRIO"
    /\ config \in ConfigsPrio
    /\ processes \in ProcessListsUpTo(MaxProcsPrio, 0..MaxPriority)
    /\ queues = <<>>
    /\ InitCommon

InitMLQ ==
    /\ alg = "MLQ"
    /\ config \in ConfigsMLQ
    /\ processes \in {[i \in 1..Len(l) |-> mlqAddProcess(l[i], config.numQueues)] :
                        l \in ProcessListsUpTo(MaxProcsMLQ, MLQPriorities)}
    /\ queues = EmptyQueues(config.numQueues)
    /\ InitCommon

InitMLFQ ==
    /\ alg = "MLFQ"
    /\ config \in ConfigsMLFQ
    /\ processes \in ProcessListsUpTo(MaxProcsMLFQ, {0})
    /\ queues = EmptyQueues(config.numQueues)
    /\ InitCommon

Init == InitRR \/ InitPrio \/ InitMLQ \/ InitMLFQ

\* What a finished run() leaves for its caller to read.
Snapshot(procs, tl, now, switches, m) ==
    [processes |-> procs, timeline |-> tl, currentTime |-> now,
     contextSwitches |-> switches, metrics |-> m]

\* A run() may be called on a fresh instance or after an earlier run().
CanStart == pc \in {"idle", "done"} /\ runNo < MaxRuns

\* -------------------------------------------------------------- Round Robin
\* std::sort by arrival time, as the insertion sort the library runs on a
\* vector this short: equal arrival times keep their input order.
insertByArrival(sorted, p) ==
    LET Before(i) == sorted[i].arrivalTime <= p.arrivalTime
        k == Len(Positions(sorted, Before))
    IN  SubSeq(sorted, 1, k) \o <<p>> \o SubSeq(sorted, k + 1, Len(sorted))

RECURSIVE sortByArrival(_, _)
sortByArrival(procs, n) ==
    IF n = 0 THEN <<>> ELSE insertByArrival(sortByArrival(procs, n - 1), procs[n])

\* The two "add newly arrived processes to the circular queue" loops of
\* run(): every position other than skip that is not queued, is READY, has
\* arrived and has work left is pushed, in vector order.
enqueueArrived(queue, procs, now, skip) ==
    LET Wanted(i) == /\ i # skip
                     /\ ~InSeq(i, queue)
                     /\ procs[i].state = "READY"
                     /\ procs[i].arrivalTime <= now
                     /\ ~isCompleted(procs[i])
    IN  queue \o Positions(procs, Wanted)

\* run()'s "check for new arrivals during execution": checkArrivals(t) for
\* t = from .. to, on the processes and on readyQueue.
RECURSIVE arrivalsDuring(_, _, _)
arrivalsDuring(procs, from, to) ==
    IF from > to THEN procs
    ELSE arrivalsDuring(checkArrivals(procs, from), from + 1, to)

RECURSIVE arrivedPidsDuring(_, _, _)
arrivedPidsDuring(procs, from, to) ==
    IF from > to THEN <<>>
    ELSE arrivedPids(procs, from)
            \o arrivedPidsDuring(checkArrivals(procs, from), from + 1, to)

\* An idle CPU that steps one tick at a time while an arrival is ahead.
nextArrivalNextTick(procs, now) ==
    IF \E j \in 1..Len(procs) : /\ procs[j].arrivalTime > now
                                /\ procs[j].state # "TERMINATED"
    THEN now + 1 ELSE -1

\* The smallest arrival time after now among non-terminated processes
\* (INT_MAX in the source when there is none; -1 here).
nextArrival(procs, now) ==
    LET later == {procs[i].arrivalTime : i \in
                    {j \in 1..Len(procs) : /\ procs[j].arrivalTime > now
                                           /\ procs[j].state # "TERMINATED"}}
    IN  IF later = {} THEN -1
        ELSE CHOOSE t \in later : \A u \in later : t <= u

\* A completion that measures turnaround from tick 0 instead of from the
\* process's arrival.
rrCompleteFromZero(p, now) ==
    [p EXCEPT !.state = "TERMINATED",
              !.completionTime = now,
              !.turnaroundTime = now,
              !.waitingTime = now - p.burstTime]

\* The bookkeeping run() does on a process that has just completed.
rrComplete(p, now) ==
    [p EXCEPT !.state = "TERMINATED",
              !.completionTime = now,
              !.turnaroundTime = now - p.arrivalTime,
              !.waitingTime = (now - p.arrivalTime) - p.burstTime]

\* The end of a run(): calculateMetrics(), and the history of the first run.
Finish(procs, tl, now, switches) ==
    /\ metrics' = calculateMetrics(procs, tl, now, switches, config)
    /\ pc' = "done"
    /\ firstRun' = IF runNo = 1
                   THEN <<Snapshot(procs, tl, now, switches, metrics')>>
                   ELSE firstRun

\* RoundRobinScheduler::run() up to the while loop.
RRStart ==
    /\ alg = "RR" /\ CanStart
    /\ runNo' = runNo + 1
    /\ IF processes = <<>>
       THEN /\ pc' = "done"
            /\ firstRun' = IF runNo = 0
                           THEN <<Snapshot(processes, timeline, currentTime,
                                           contextSwitches, metrics)>>
                           ELSE firstRun
            /\ UNCHANGED <<processes, readyQueue, timeline, metrics,
                           currentTime, contextSwitches, currentProcess,
                           processQueue, lastProcess>>
       ELSE LET cleared == [i \in 1..Len(processes) |-> ProcessReset(processes[i])]
                sorted == sortByArrival(cleared, Len(cleared))
            IN  /\ processes' = checkArrivals(sorted, 0)
                /\ readyQueue' = arrivedPids(sorted, 0)
                /\ processQueue' = [i \in 1..Len(readyQueue') |-> i]
                /\ timeline' = <<>>
                /\ metrics' = ZeroMetrics
                /\ currentTime' = 0
                /\ contextSwitches' = 0
                /\ currentProcess' = 0
                /\ lastProcess' = 0
                /\ pc' = "loop"
                /\ UNCHANGED firstRun
    /\ UNCHANGED <<alg, config, lastCall, constructed, processIdx, completedProcesses>>
    /\ UNCHANGED prioVars /\ UNCHANGED mlVars

\* One pass from the loop test to the call of execute(): arrivals, the idle
\* jump or break, the pop, the context switch and the response time.
RRSelect ==
    /\ alg = "RR" /\ pc = "loop"
    /\ UNCHANGED <<alg, config, lastCall, constructed, runNo, currentProcess, completedProcesses>>
    /\ UNCHANGED prioVars /\ UNCHANGED mlVars
    /\ IF isComplete(processes)
       THEN /\ Finish(processes, timeline, currentTime, contextSwitches)
            /\ UNCHANGED <<processes, readyQueue, timeline, currentTime,
                           contextSwitches, processQueue, lastProcess, processIdx>>
       ELSE
       LET procs1 == checkArrivals(processes, currentTime)
           queue1 == enqueueArrived(processQueue, procs1, currentTime, 0)
           next == nextArrival(procs1, currentTime)
       IN
       /\ readyQueue' = readyQueue \o arrivedPids(processes, currentTime)
       /\ IF queue1 = <<>>
          THEN /\ processes' = procs1
               /\ processQueue' = queue1
               /\ UNCHANGED <<contextSwitches, lastProcess, processIdx>>
               /\ IF next # -1
                  THEN /\ timeline' = recordEvent(timeline, -1, currentTime, next, FALSE)
                       /\ currentTime' = next
                       /\ UNCHANGED <<pc, metrics, firstRun>>
                  ELSE /\ Finish(procs1, timeline, currentTime, contextSwitches)
                       /\ UNCHANGED <<timeline, currentTime>>
          ELSE
          LET idx == Head(queue1)
              switch == switchNeeded(procs1, lastProcess, idx)
              now == IF switch THEN currentTime + config.contextSwitchTime
                     ELSE currentTime
              p == procs1[idx]
              started == recordResponse(p, now)
          IN
          /\ processQueue' = Tail(queue1)
          /\ UNCHANGED <<metrics, firstRun, lastProcess>>
          /\ IF isCompleted(p)
             THEN /\ processes' = procs1
                  /\ UNCHANGED <<timeline, currentTime, contextSwitches, pc, processIdx>>
             ELSE /\ processes' = [procs1 EXCEPT ![idx] = [started EXCEPT !.state = "RUNNING"]]
                  /\ timeline' = IF switch
                                 THEN recordEvent(timeline, -1, currentTime, now, TRUE)
                                 ELSE timeline
                  /\ contextSwitches' = IF switch THEN contextSwitches + 1
                                        ELSE contextSwitches
                  /\ currentTime' = now
                  /\ processIdx' = idx
                  /\ pc' = "exec"

\* From the call of execute() to the end of the iteration.
RRExecute ==
    /\ alg = "RR" /\ pc = "exec"
    /\ LET executeTime == rrExecuteTime(config, processes[processIdx])
           startTime == currentTime
           now == currentTime + executeTime
           ran == [processes EXCEPT ![processIdx] = execute(@, executeTime)]
           procs1 == arrivalsDuring(ran, startTime + 1, now)
           queue1 == enqueueArrived(processQueue, procs1, now, processIdx)
       IN  /\ currentTime' = now
           /\ timeline' = recordEvent(timeline, processes[processIdx].pid, startTime, now, FALSE)
           /\ readyQueue' = readyQueue \o arrivedPidsDuring(ran, startTime + 1, now)
           /\ IF isCompleted(procs1[processIdx])
              THEN /\ processes' = [procs1 EXCEPT ![processIdx] = rrComplete(@, now)]
                   /\ processQueue' = queue1
              ELSE /\ processes' = [procs1 EXCEPT ![processIdx].state = "READY"]
                   /\ processQueue' = Append(queue1, processIdx)
           /\ lastProcess' = processIdx
           /\ pc' = "loop"
    /\ UNCHANGED <<alg, config, lastCall, constructed, runNo, firstRun, metrics, contextSwitches,
                   currentProcess, processIdx, completedProcesses>>
    /\ UNCHANGED prioVars /\ UNCHANGED mlVars

NextRR == RRStart \/ RRSelect \/ RRExecute
SpecRR == InitRR /\ [][NextRR]_vars

\* ----------------------------------------------------------------- Priority
\* An arrival test that admits a process only on its exact arrival tick, as
\* the multilevel schedulers do.
prioArrivesExact(p, now) == p.state = "NEW" /\ p.arrivalTime = now

\* The arrival test of PriorityScheduler::run().
prioArrives(p, now) == p.state = "NEW" /\ p.arrivalTime <= now

\* PriorityScheduler::shouldPreempt; curProcess is Scheduler::currentProcess.
shouldPreempt(procs, arriving, cfg, curProcess) ==
    IF ~cfg.preemptive \/ curProcess = 0 THEN FALSE
    ELSE arriving.priority < procs[curProcess].priority

\* run()'s "handle new arrivals" loop from position i on.  st carries the
\* processes, the context-switch counter and currentProcessIdx.
RECURSIVE prioArrivals(_, _, _, _, _)
prioArrivals(st, i, now, cfg, curProcess) ==
    IF i > Len(st.procs) THEN st
    ELSE IF prioArrives(st.procs[i], now)
    THEN LET promoted == [st.procs EXCEPT ![i].state = "READY"]
         IN  IF /\ cfg.preemptive
                /\ shouldPreempt(promoted, promoted[i], cfg, curProcess)
                /\ st.idx # 0
             THEN prioArrivals([procs |-> [promoted EXCEPT ![st.idx].state = "READY"],
                                switches |-> st.switches + 1,
                                idx |-> 0],
                               i + 1, now, cfg, curProcess)
             ELSE prioArrivals([st EXCEPT !.procs = promoted], i + 1, now, cfg, curProcess)
    ELSE prioArrivals(st, i + 1, now, cfg, curProcess)

\* PriorityScheduler::applyAging, one process: the stamp it is measured
\* from, whether its priority is boosted, and the two results.
agingStamp(p, ws, now) == IF ws[p.pid] = -1 THEN now ELSE ws[p.pid]

\* A boost that does not stop at priority value 0.
agingBoostsBelowZero(p, ws, now, cfg) ==
    /\ cfg.agingEnabled
    /\ p.state = "READY"
    /\ now - agingStamp(p, ws, now) >= cfg.agingThreshold

agingBoosts(p, ws, now, cfg) ==
    /\ cfg.agingEnabled
    /\ p.state = "READY"
    /\ now - agingStamp(p, ws, now) >= cfg.agingThreshold
    /\ p.priority > 0

applyAgingProcs(procs, ws, now, cfg) ==
    [i \in 1..Len(procs) |->
        IF agingBoosts(procs[i], ws, now, cfg)
        THEN [procs[i] EXCEPT !.priority = @ - 1] ELSE procs[i]]

applyAgingStamps(procs, ws, now, cfg) ==
    [pid \in DOMAIN ws |->
        IF \E i \in 1..Len(procs) : procs[i].pid = pid
        THEN LET p == procs[CHOOSE i \in 1..Len(procs) : procs[i].pid = pid]
             IN  IF cfg.agingEnabled /\ p.state = "READY"
                 THEN IF agingBoosts(p, ws, now, cfg) THEN now
                      ELSE agingStamp(p, ws, now)
                 ELSE ws[pid]
        ELSE ws[pid]]

\* PriorityScheduler::findHighestPriority: the scan from position i with the
\* best position so far (0: none yet, highestPriority still INT_MAX).
RECURSIVE findScan(_, _, _, _)
findScan(procs, now, i, best) ==
    IF i > Len(procs) THEN best
    ELSE LET p == procs[i]
         IN  IF p.state = "READY" /\ p.arrivalTime <= now
             THEN IF best = 0 \/ p.priority < procs[best].priority
                  THEN findScan(procs, now, i + 1, i)
                  ELSE IF /\ p.priority = procs[best].priority
                          /\ p.arrivalTime < procs[best].arrivalTime
                       THEN findScan(procs, now, i + 1, i)
                       ELSE findScan(procs, now, i + 1, best)
             ELSE findScan(procs, now, i + 1, best)

\* A selection that breaks ties of priority by the latest position.
RECURSIVE findScanLastWins(_, _, _, _)
findScanLastWins(procs, now, i, best) ==
    IF i > Len(procs) THEN best
    ELSE LET p == procs[i]
         IN  IF p.state = "READY" /\ p.arrivalTime <= now
             THEN IF best = 0 \/ p.priority <= procs[best].priority
                  THEN findScanLastWins(procs, now, i + 1, i)
                  ELSE findScanLastWins(procs, now, i + 1, best)
             ELSE findScanLastWins(procs, now, i + 1, best)

findLastWins(procs, now) == findScanLastWins(procs, now, 1, 0)

\* A selection that takes the first Ready process in vector order.
findFirstReady(procs, now) ==
    LET Ready(i) == procs[i].state = "READY" /\ procs[i].arrivalTime <= now
        ready == Positions(procs, Ready)
    IN  IF ready = <<>> THEN 0 ELSE Head(ready)

findHighestPriority(procs, now) == findScan(procs, now, 1, 0)

\* "Update waiting time for other ready processes" after a slice.
prioAddWaiting(procs, now, actualTime) ==
    [i \in 1..Len(procs) |->
        IF procs[i].state = "READY" /\ procs[i].arrivalTime <= now
        THEN [procs[i] EXCEPT !.waitingTime = @ + actualTime] ELSE procs[i]]

\* A slice of one tick in both modes.
prioSliceOneTick(p, cfg) == 1

\* The slice run() asks execute() for.
prioSlice(p, cfg) == IF cfg.preemptive THEN 1 ELSE p.remainingTime

\* PriorityScheduler::run() up to the while loop.
PrioStart ==
    /\ alg = "PRIO" /\ CanStart
    /\ runNo' = runNo + 1
    /\ currentTime' = 0
    /\ currentProcessIdx' = 0
    /\ timeline' = <<>>
    /\ contextSwitches' = 0
    /\ processes' = [i \in 1..Len(processes) |->
                        LET p == ProcessReset(processes[i])
                        IN  IF p.arrivalTime = 0 THEN [p EXCEPT !.state = "READY"] ELSE p]
    /\ completedProcesses' = 0
    /\ pc' = "loop"
    /\ UNCHANGED <<alg, config, lastCall, constructed, firstRun, readyQueue, metrics, currentProcess,
                   processIdx, waitingSince>>
    /\ UNCHANGED rrVars /\ UNCHANGED mlVars

\* From the loop test to the call of execute(): arrivals, aging, selection.
PrioSelect ==
    /\ alg = "PRIO" /\ pc = "loop"
    /\ UNCHANGED <<alg, config, lastCall, constructed, runNo, readyQueue, currentProcess, processIdx>>
    /\ UNCHANGED rrVars /\ UNCHANGED mlVars
    /\ IF completedProcesses >= Len(processes)
       THEN /\ Finish(processes, timeline, currentTime, contextSwitches)
            /\ UNCHANGED <<processes, timeline, currentTime, contextSwitches,
                           currentProcessIdx, waitingSince, completedProcesses>>
       ELSE
       LET st == prioArrivals([procs |-> processes, switches |-> contextSwitches,
                               idx |-> currentProcessIdx],
                              1, currentTime, config, currentProcess)
           aged == applyAgingProcs(st.procs, waitingSince, currentTime, config)
           stamps == applyAgingStamps(st.procs, waitingSince, currentTime, config)
           found == findHighestPriority(aged, currentTime)
       IN
       /\ contextSwitches' = st.switches
       /\ UNCHANGED <<metrics, firstRun, timeline, completedProcesses>>
       /\ IF st.idx # 0
          THEN /\ processes' = aged
               /\ waitingSince' = stamps
               /\ currentProcessIdx' = st.idx
               /\ pc' = "exec"
               /\ UNCHANGED currentTime
          ELSE IF found # 0
          THEN LET sel == aged[found]
                   started == recordResponse(sel, currentTime)
               IN  /\ processes' = [aged EXCEPT ![found] = [started EXCEPT !.state = "RUNNING"]]
                   /\ currentTime' =
                        IF timeline # <<>> /\ timeline[Len(timeline)].processId # sel.pid
                        THEN currentTime + config.contextSwitchTime
                        ELSE currentTime
                   /\ waitingSince' = [stamps EXCEPT ![sel.pid] = -1]
                   /\ currentProcessIdx' = found
                   /\ pc' = "exec"
          ELSE /\ currentTime < MaxClock
               /\ processes' = aged
               /\ waitingSince' = stamps
               /\ currentTime' = currentTime + 1
               /\ UNCHANGED <<currentProcessIdx, pc>>

\* From the call of execute() to the end of the iteration.
PrioExecute ==
    /\ alg = "PRIO" /\ pc = "exec"
    /\ LET current == processes[currentProcessIdx]
           executionStart == currentTime
           actualTime == executedTime(current, prioSlice(current, config))
           now == currentTime + actualTime
           ran == [processes EXCEPT ![currentProcessIdx] = execute(@, prioSlice(current, config))]
           waited == prioAddWaiting(ran, now, actualTime)
           higher == findHighestPriority(waited, now)
       IN  /\ currentTime' = now
           /\ timeline' = recordEvent(timeline, current.pid, executionStart, now, FALSE)
           /\ IF waited[currentProcessIdx].remainingTime = 0
              THEN /\ processes' = [waited EXCEPT ![currentProcessIdx] =
                                      [@ EXCEPT !.state = "TERMINATED",
                                                !.completionTime = now,
                                                !.turnaroundTime = now - current.arrivalTime]]
                   /\ completedProcesses' = completedProcesses + 1
                   /\ currentProcessIdx' = 0
                   /\ UNCHANGED contextSwitches
              ELSE IF /\ config.preemptive
                      /\ higher # 0 /\ higher # currentProcessIdx
                      /\ waited[higher].priority < waited[currentProcessIdx].priority
              THEN /\ processes' = [waited EXCEPT ![currentProcessIdx].state = "READY"]
                   /\ contextSwitches' = contextSwitches + 1
                   /\ currentProcessIdx' = 0
                   /\ UNCHANGED completedProcesses
              ELSE /\ processes' = waited
                   /\ UNCHANGED <<contextSwitches, currentProcessIdx, completedProcesses>>
           /\ pc' = "loop"
    /\ UNCHANGED <<alg, config, lastCall, constructed, runNo, firstRun, metrics, readyQueue,
                   currentProcess, processIdx, waitingSince>>
    /\ UNCHANGED rrVars /\ UNCHANGED mlVars

NextPrio == PrioStart \/ PrioSelect \/ PrioExecute
SpecPrio == InitPrio /\ [][NextPrio]_vars

\* ------------------------------------------------ Multilevel Queue: run()
\* What run()'s initialisation loop makes of one process: the queue level
\* is set, then reset() runs, then the arrival-0 test sets the state.
mlqInitProcess(p, numQueues) ==
    LET r == ProcessReset([p EXCEPT !.queueLevel = assignToQueue(p, numQueues)])
    IN  [r EXCEPT !.state = IF r.arrivalTime = 0 THEN "READY" ELSE "NEW"]

\* The arrival test of the two multilevel run() loops.
mlArrives(p, now) == p.state = "NEW" /\ p.arrivalTime = now

\* The queue a process arriving during the run is pushed to.
mlqArrivalQueue(p) == p.queueLevel

\* "Update waiting time for other ready processes" of the multilevel loops.
mlAddWaiting(procs, now, actualTime, pid) ==
    [i \in 1..Len(procs) |->
        IF /\ procs[i].state = "READY"
           /\ procs[i].arrivalTime <= now
           /\ procs[i].pid # pid
        THEN [procs[i] EXCEPT !.waitingTime = @ + actualTime] ELSE procs[i]]

\* run()'s "check for completed processes" count after executeQueue.
mlqCompletedNow(procs, now) ==
    Cardinality({i \in 1..Len(procs) :
                    procs[i].state = "TERMINATED" /\ procs[i].completionTime = now})

\* The context-switch test of the multilevel dispatch.
mlSwitches(tl, pid) == tl # <<>> /\ tl[Len(tl)].processId # pid

MLQStart ==
    /\ alg = "MLQ" /\ CanStart
    /\ runNo' = runNo + 1
    /\ currentTime' = 0
    /\ timeline' = <<>>
    /\ processes' = [i \in 1..Len(processes) |->
                        mlqInitProcess(processes[i], config.numQueues)]
    /\ queues' = [q \in 0..(config.numQueues - 1) |->
                    LET Starts(i) == /\ processes[i].arrivalTime = 0
                                     /\ assignToQueue(processes[i], config.numQueues) = q
                    IN  Positions(processes, Starts)]
    /\ completedProcesses' = 0
    /\ pc' = "loop"
    /\ UNCHANGED <<alg, config, lastCall, constructed, firstRun, readyQueue, metrics, contextSwitches,
                   currentProcess, processIdx, activeQueue, lastBoostTime>>
    /\ UNCHANGED rrVars /\ UNCHANGED prioVars

\* From the loop test to the call of execute() inside executeQueue.  A
\* queue whose quantum is 0 is dispatched without end; the model follows
\* such a run for MaxEvents timeline entries, and an idle clock to MaxClock.
MLQSelect ==
    /\ alg = "MLQ" /\ pc = "loop"
    /\ UNCHANGED <<alg, config, lastCall, constructed, runNo, readyQueue, currentProcess, lastBoostTime>>
    /\ UNCHANGED rrVars /\ UNCHANGED prioVars
    /\ IF completedProcesses >= Len(processes)
       THEN /\ Finish(processes, timeline, currentTime, contextSwitches)
            /\ UNCHANGED <<processes, timeline, currentTime, contextSwitches,
                           processIdx, completedProcesses, queues, activeQueue>>
       ELSE
       LET procs1 == [i \in 1..Len(processes) |->
                        IF mlArrives(processes[i], currentTime)
                        THEN [processes[i] EXCEPT !.state = "READY"]
                        ELSE processes[i]]
           queues1 == [q \in 0..(config.numQueues - 1) |->
                        LET Comes(i) == /\ mlArrives(processes[i], currentTime)
                                        /\ mlqArrivalQueue(processes[i]) = q
                        IN  queues[q] \o Positions(processes, Comes)]
           active == getActiveQueue(queues1, config.numQueues)
       IN
       /\ UNCHANGED <<metrics, firstRun, timeline>>
       /\ activeQueue' = active
       /\ IF active = -1
          THEN /\ currentTime < MaxClock
               /\ currentTime' = currentTime + 1
               /\ processes' = procs1
               /\ queues' = queues1
               /\ UNCHANGED <<contextSwitches, processIdx, completedProcesses, pc>>
          ELSE
          LET idx == Head(queues1[active])
              p == procs1[idx]
              started == recordResponse(p, currentTime)
              switch == mlSwitches(timeline, p.pid)
          IN
          /\ queues' = [queues1 EXCEPT ![active] = Tail(@)]
          /\ IF p.state # "READY" \/ p.arrivalTime > currentTime
             THEN /\ processes' = procs1
                  /\ completedProcesses' =
                        completedProcesses + mlqCompletedNow(procs1, currentTime)
                  /\ UNCHANGED <<currentTime, contextSwitches, processIdx, pc>>
             ELSE /\ Len(timeline) < MaxEvents
                  /\ processes' = [procs1 EXCEPT ![idx] = [started EXCEPT !.state = "RUNNING"]]
                  /\ currentTime' = IF switch THEN currentTime + config.contextSwitchTime
                                    ELSE currentTime
                  /\ contextSwitches' = IF switch THEN contextSwitches + 1
                                        ELSE contextSwitches
                  /\ processIdx' = idx
                  /\ pc' = "exec"
                  /\ UNCHANGED completedProcesses

\* From the call of execute() in executeQueue to the end of the iteration.
MLQExecute ==
    /\ alg = "MLQ" /\ pc = "exec"
    /\ LET p == processes[processIdx]
           quantum == mlqQuantum(activeQueue, config)
           executionStart == currentTime
           actualTime == executedTime(p, quantum)
           now == currentTime + actualTime
           ran == [processes EXCEPT ![processIdx] = execute(@, quantum)]
           waited == mlAddWaiting(ran, now, actualTime, p.pid)
           finished == waited[processIdx].remainingTime = 0
           procs1 == IF finished
                     THEN [waited EXCEPT ![processIdx] =
                             [@ EXCEPT !.state = "TERMINATED",
                                       !.completionTime = now,
                                       !.turnaroundTime = now - p.arrivalTime]]
                     ELSE [waited EXCEPT ![processIdx].state = "READY"]
       IN  /\ currentTime' = now
           /\ timeline' = recordEvent(timeline, p.pid, executionStart, now, FALSE)
           /\ processes' = procs1
           /\ queues' = IF finished THEN queues
                        ELSE [queues EXCEPT ![activeQueue] = Append(@, processIdx)]
           /\ completedProcesses' = completedProcesses + mlqCompletedNow(procs1, now)
           /\ pc' = "loop"
    /\ UNCHANGED <<alg, config, lastCall, constructed, runNo, firstRun, metrics, readyQueue,
                   contextSwitches, currentProcess, processIdx, activeQueue,
                   lastBoostTime>>
    /\ UNCHANGED rrVars /\ UNCHANGED prioVars

NextMLQ == MLQStart \/ MLQSelect \/ MLQExecute
SpecMLQ == InitMLQ /\ [][NextMLQ]_vars

\* ------------------------------------------------ Multilevel Feedback Queue
RECURSIVE Pow2(_)
Pow2(n) == IF n = 0 THEN 1 ELSE 2 * Pow2(n - 1)

\* quantums[level] as the constructor fills it (no explicit list given).
mlfqQuantums(level, cfg) == cfg.timeQuantum * Pow2(level)

getQuantumForQueue(level, cfg) ==
    IF level >= 0 /\ level < cfg.numQueues
    THEN mlfqQuantums(level, cfg) ELSE cfg.timeQuantum

\* The constructor's agingInterval.
agingInterval(cfg) == cfg.agingThreshold * 5

\* A scheduler that never demotes.
demoteNever(p, numQueues) == p

\* A demotion that drops straight to the last level.
demoteToLast(p, numQueues) ==
    IF p.queueLevel < numQueues - 1 THEN [p EXCEPT !.queueLevel = numQueues - 1] ELSE p

\* MultilevelFeedbackQueueScheduler::demoteProcess.
demoteProcess(p, numQueues) ==
    IF p.queueLevel < numQueues - 1 THEN [p EXCEPT !.queueLevel = @ + 1] ELSE p

\* run()'s test for a boost at the top of an iteration.
boostDue(now, last, cfg) == cfg.agingEnabled /\ (now - last) >= agingInterval(cfg)

\* MultilevelFeedbackQueueScheduler::priorityBoost: processes, then queues.
priorityBoostProcs(procs) ==
    [i \in 1..Len(procs) |->
        IF procs[i].state # "TERMINATED"
        THEN [procs[i] EXCEPT !.queueLevel = 0] ELSE procs[i]]

\* A boost that refills queue 0 but forgets to empty the other queues.
priorityBoostQueuesKeepsLower(procs, numQueues) ==
    LET Ready(i) == procs[i].state = "READY"
    IN  [q \in 0..(numQueues - 1) |->
            IF q = 0 THEN Positions(procs, Ready) ELSE queues[q]]

priorityBoostQueues(procs, numQueues) ==
    LET Ready(i) == procs[i].state = "READY"
    IN  [q \in 0..(numQueues - 1) |->
            IF q = 0 THEN Positions(procs, Ready) ELSE <<>>]

MLFQStart ==
    /\ alg = "MLFQ" /\ CanStart
    /\ runNo' = runNo + 1
    /\ currentTime' = 0
    /\ timeline' = <<>>
    /\ lastBoostTime' = 0
    /\ processes' = [i \in 1..Len(processes) |->
                        LET r == [ProcessReset(processes[i]) EXCEPT !.queueLevel = 0]
                        IN  [r EXCEPT !.state = IF r.arrivalTime = 0 THEN "READY" ELSE "NEW"]]
    /\ queues' = [q \in 0..(config.numQueues - 1) |->
                    LET Starts(i) == processes[i].arrivalTime = 0
                    IN  IF q = 0 THEN Positions(processes, Starts) ELSE <<>>]
    /\ completedProcesses' = 0
    /\ pc' = "loop"
    /\ UNCHANGED <<alg, config, lastCall, constructed, firstRun, readyQueue, metrics, contextSwitches,
                   currentProcess, processIdx, activeQueue>>
    /\ UNCHANGED rrVars /\ UNCHANGED prioVars

\* From the loop test to the call of execute(): boost, arrivals, dispatch.
MLFQSelect ==
    /\ alg = "MLFQ" /\ pc = "loop"
    /\ UNCHANGED <<alg, config, lastCall, constructed, runNo, readyQueue, currentProcess>>
    /\ UNCHANGED rrVars /\ UNCHANGED prioVars
    /\ IF completedProcesses >= Len(processes)
       THEN /\ Finish(processes, timeline, currentTime, contextSwitches)
            /\ UNCHANGED <<processes, timeline, currentTime, contextSwitches,
                           processIdx, completedProcesses, queues, activeQueue,
                           lastBoostTime>>
       ELSE
       LET boost == boostDue(currentTime, lastBoostTime, config)
           procs0 == IF boost THEN priorityBoostProcs(processes) ELSE processes
           queues0 == IF boost THEN priorityBoostQueues(processes, config.numQueues)
                      ELSE queues
           Comes(i) == mlArrives(procs0[i], currentTime)
           procs1 == [i \in 1..Len(procs0) |->
                        IF Comes(i)
                        THEN [procs0[i] EXCEPT !.state = "READY", !.queueLevel = 0]
                        ELSE procs0[i]]
           queues1 == [queues0 EXCEPT ![0] = @ \o Positions(procs0, Comes)]
           active == getActiveQueue(queues1, config.numQueues)
       IN
       /\ UNCHANGED <<metrics, firstRun, timeline, completedProcesses>>
       /\ lastBoostTime' = IF boost THEN currentTime ELSE lastBoostTime
       /\ activeQueue' = active
       /\ IF active = -1
          THEN /\ currentTime < MaxClock
               /\ currentTime' = currentTime + 1
               /\ processes' = procs1
               /\ queues' = queues1
               /\ UNCHANGED <<contextSwitches, processIdx, pc>>
          ELSE
          LET idx == Head(queues1[active])
              p == procs1[idx]
              started == recordResponse(p, currentTime)
              switch == mlSwitches(timeline, p.pid)
          IN
          /\ queues' = [queues1 EXCEPT ![active] = Tail(@)]
          /\ IF p.state # "READY"
             THEN /\ processes' = procs1
                  /\ UNCHANGED <<currentTime, contextSwitches, processIdx, pc>>
             ELSE /\ processes' = [procs1 EXCEPT ![idx] = [started EXCEPT !.state = "RUNNING"]]
                  /\ currentTime' = IF switch THEN currentTime + config.contextSwitchTime
                                    ELSE currentTime
                  /\ contextSwitches' = IF switch THEN contextSwitches + 1
                                        ELSE contextSwitches
                  /\ processIdx' = idx
                  /\ pc' = "exec"

\* From the call of execute() to the end of the iteration.
MLFQExecute ==
    /\ alg = "MLFQ" /\ pc = "exec"
    /\ LET p == processes[processIdx]
           quantum == getQuantumForQueue(activeQueue, config)
           executionStart == currentTime
           actualTime == executedTime(p, quantum)
           now == currentTime + actualTime
           ran == [processes EXCEPT ![processIdx] = execute(@, quantum)]
           waited == mlAddWaiting(ran, now, actualTime, p.pid)
           finished == waited[processIdx].remainingTime = 0
           demoted == IF actualTime >= quantum
                      THEN demoteProcess(waited[processIdx], config.numQueues)
                      ELSE waited[processIdx]
       IN  /\ currentTime' = now
           /\ timeline' = recordEvent(timeline, p.pid, executionStart, now, FALSE)
           /\ IF finished
              THEN /\ processes' = [waited EXCEPT ![processIdx] =
                                      [@ EXCEPT !.state = "TERMINATED",
                                                !.completionTime = now,
                                                !.turnaroundTime = now - p.arrivalTime]]
                   /\ completedProcesses' = completedProcesses + 1
                   /\ UNCHANGED queues
              ELSE /\ processes' = [waited EXCEPT ![processIdx] =
                                      [demoted EXCEPT !.state = "READY"]]
                   /\ queues' = [queues EXCEPT ![demoted.queueLevel] = Append(@, processIdx)]
                   /\ UNCHANGED completedProcesses
           /\ pc' = "loop"
    /\ UNCHANGED <<alg, config, lastCall, constructed, runNo, firstRun, metrics, readyQueue,
                   contextSwitches, currentProcess, processIdx, activeQueue,
                   lastBoostTime>>
    /\ UNCHANGED rrVars /\ UNCHANGED prioVars

NextMLFQ == MLFQStart \/ MLFQSelect \/ MLFQExecute
SpecMLFQ == InitMLFQ /\ [][NextMLFQ]_vars

\* ------------------------------------------------------------ all together
Next == NextRR \/ NextPrio \/ NextMLQ \/ NextMLFQ
Spec == Init /\ [][Next]_vars

\* The code runs on one thread and never blocks: a run() that can take a
\* step takes it.
FairSpecRR == SpecRR /\ WF_vars(NextRR)
FairSpecPrio == SpecPrio /\ WF_vars(NextPrio)
FairSpecMLQ == SpecMLQ /\ WF_vars(NextMLQ)
FairSpecMLFQ == SpecMLFQ /\ WF_vars(NextMLFQ)

\* =================================================================== claims
InRun == pc \in {"loop", "exec"}
AllTerminated == isComplete(processes)

\* Total length of the execution entries of one PID in a timeline.
RECURSIVE execTime(_, _, _)
execTime(tl, pid, n) ==
    IF n = 0 THEN 0
    ELSE execTime(tl, pid, n - 1) +
         (IF tl[n].processId = pid /\ ~tl[n].isContextSwitch
          THEN tl[n].endTime - tl[n].startTime ELSE 0)

\* A process is stranded when the clock has passed its arrival tick and it
\* is still New: the multilevel run() loops admit a process only on the
\* tick equal to its arrival time and the clock never goes back, so the
\* process is never admitted, the completed count never reaches the number
\* of processes and the loop never ends.
Stranded(procs, now) ==
    \E i \in 1..Len(procs) :
        procs[i].state = "NEW" /\ procs[i].arrivalTime < now

\* C1: run() of the Multilevel Feedback Queue scheduler terminates with
\* every process Terminated, whatever the arrival times: at the head of its
\* loop no process is stranded, also when its arrival tick fell inside
\* another process's slice or inside a context-switch gap.
C1_MLFQTerminates ==
    (alg = "MLFQ" /\ pc = "loop") => ~Stranded(processes, currentTime)

\* C2: run() of the Multilevel Queue scheduler terminates with every process
\* Terminated, whatever the arrival times: at the head of its loop no
\* process is stranded, also when the clock stepped over its arrival tick
\* during a slice or a context switch.
C2_MLQTerminates ==
    (alg = "MLQ" /\ pc = "loop") => ~Stranded(processes, currentTime)

\* C3: when RoundRobinScheduler::run() has returned, every owned process is
\* Terminated.
C3_RRReturnsComplete ==
    (alg = "RR" /\ pc = "done") => AllTerminated

\* C4: every run() of the Priority scheduler that has entered its loop comes
\* to its end with every process Terminated, in both modes, aging on or off.
C4_PrioTerminates ==
    (alg = "PRIO" /\ InRun) ~> (pc = "done" /\ AllTerminated)

\* C4 witness: a finished Priority run in which a process arrived strictly
\* inside another process's slice (the clock stepped over its arrival tick)
\* and every process is Terminated.
C4_Witness ==
    /\ alg = "PRIO" /\ pc = "done" /\ AllTerminated
    /\ \E i \in 1..Len(processes) : \E k \in 1..Len(timeline) :
          /\ timeline[k].processId # processes[i].pid
          /\ timeline[k].startTime < processes[i].arrivalTime
          /\ processes[i].arrivalTime < timeline[k].endTime

\* C5: at the end of run() of the Priority, Multilevel Queue and MLFQ
\* schedulers every Terminated process has waitingTime = turnaroundTime -
\* burstTime.
C5_WaitingIdentity ==
    (alg \in {"PRIO", "MLQ", "MLFQ"} /\ pc = "done") =>
        \A i \in 1..Len(processes) :
            processes[i].state = "TERMINATED" =>
                processes[i].waitingTime =
                    processes[i].turnaroundTime - processes[i].burstTime

\* C6: in Round Robin every Terminated process has turnaroundTime =
\* completionTime - arrivalTime, waitingTime = turnaroundTime - burstTime
\* and waitingTime >= 0.
C6_RRTimes ==
    alg = "RR" =>
        \A i \in 1..Len(processes) :
            processes[i].state = "TERMINATED" =>
                /\ processes[i].turnaroundTime =
                      processes[i].completionTime - processes[i].arrivalTime
                /\ processes[i].waitingTime =
                      processes[i].turnaroundTime - processes[i].burstTime
                /\ processes[i].waitingTime >= 0

\* C6 witness: a Round Robin process that arrived late, waited and finished.
C6_Witness ==
    /\ alg = "RR"
    /\ \E i \in 1..Len(processes) :
          /\ processes[i].state = "TERMINATED"
          /\ processes[i].arrivalTime > 0
          /\ processes[i].waitingTime > 0

\* C7: at the end of run() the execution entries of each owned process add
\* up to its burst time.
C7_TimelineCoversBurst ==
    (pc = "done" /\ runNo > 0) =>
        \A i \in 1..Len(processes) :
            execTime(timeline, processes[i].pid, Len(timeline)) =
                processes[i].burstTime

\* C8: a second run() on the same instance leaves the timeline, the
\* context-switch count, the per-process timing fields and the metrics that
\* the first run left.
TimingFields(procs) ==
    [i \in 1..Len(procs) |->
        <<procs[i].pid, procs[i].waitingTime, procs[i].turnaroundTime,
          procs[i].responseTime, procs[i].completionTime>>]

C8_SecondRunSame ==
    (pc = "done" /\ runNo = 2) =>
        /\ timeline = firstRun[1].timeline
        /\ contextSwitches = firstRun[1].contextSwitches
        /\ TimingFields(processes) = TimingFields(firstRun[1].processes)
        /\ metrics = firstRun[1].metrics

\* C9: in preemptive Priority mode, when a process is about to execute the
\* tick starting at currentTime, no other non-terminated process that has
\* arrived by then has a strictly lower priority value.
C9_NoHigherPriorityWaiting ==
    (alg = "PRIO" /\ config.preemptive /\ pc = "exec") =>
        \A i \in 1..Len(processes) :
            (/\ i # currentProcessIdx
             /\ processes[i].state # "TERMINATED"
             /\ processes[i].arrivalTime <= currentTime)
            => processes[i].priority >= processes[currentProcessIdx].priority

\* C10: in the Multilevel Queue scheduler a process is queued in and
\* dispatched from the queue of its priority band only, and at the end of
\* run() its queueLevel is that band.
C10_FixedBand ==
    alg = "MLQ" =>
        /\ \A q \in DOMAIN queues : \A k \in 1..Len(queues[q]) :
              q = assignToQueue(processes[queues[q][k]], config.numQueues)
        /\ pc = "exec" =>
              activeQueue = assignToQueue(processes[processIdx], config.numQueues)
        /\ pc = "done" =>
              \A i \in 1..Len(processes) :
                  processes[i].queueLevel =
                      assignToQueue(processes[i], config.numQueues)

\* ------------------------------------------------- the steps inside an action
\* The processes vector between the statements of one loop iteration, from
\* the state the iteration starts in.
afterReset == [i \in 1..Len(processes) |-> ProcessReset(processes[i])]

\* After the "handle new arrivals" part at the head of the loop.
afterArrivals ==
    IF alg = "RR" THEN checkArrivals(processes, currentTime)
    ELSE IF alg = "PRIO"
    THEN prioArrivals([procs |-> processes, switches |-> contextSwitches,
                       idx |-> currentProcessIdx],
                      1, currentTime, config, currentProcess).procs
    ELSE [i \in 1..Len(processes) |->
            IF mlArrives(processes[i], currentTime)
            THEN [processes[i] EXCEPT !.state = "READY"] ELSE processes[i]]

\* The process an iteration has dispatched, and the slice it asks execute() for.
runningIdx == IF alg = "PRIO" THEN currentProcessIdx ELSE processIdx

sliceAsked ==
    IF alg = "RR"
    THEN rrExecuteTime(config, processes[runningIdx])
    ELSE IF alg = "PRIO" THEN prioSlice(processes[runningIdx], config)
    ELSE IF alg = "MLQ" THEN mlqQuantum(activeQueue, config)
    ELSE getQuantumForQueue(activeQueue, config)

\* Right after the call of Process::execute.
afterExecute == [processes EXCEPT ![runningIdx] = execute(@, sliceAsked)]

stateOf(procs, pid) ==
    procs[CHOOSE i \in 1..Len(procs) : procs[i].pid = pid].state

\* The state changes of the Process state machine.
LegalChange(from, to) ==
    \/ from = to /\ from # "WAITING"
    \/ <<from, to>> \in {<<"NEW", "READY">>, <<"READY", "RUNNING">>,
                         <<"RUNNING", "READY">>, <<"RUNNING", "TERMINATED">>}

LegalChanges(before, after) ==
    \A i \in 1..Len(before) :
        LegalChange(before[i].state, stateOf(after, before[i].pid))

\* C11: during a run every state change of every process is New->Ready,
\* Ready->Running, Running->Ready or Running->Terminated; Terminated is
\* never left and Waiting never entered.  Each loop iteration is followed
\* through its inner points: after the arrivals, after execute().
C11_LegalTransitions ==
    [][/\ (pc \in {"idle", "done"} /\ pc' = "loop") =>
              LegalChanges(afterReset, processes')
       /\ pc = "loop" =>
              /\ LegalChanges(processes, afterArrivals)
              /\ LegalChanges(afterArrivals, processes')
       /\ pc = "exec" =>
              /\ LegalChanges(processes, afterExecute)
              /\ LegalChanges(afterExecute, processes')]_vars

\* C11 witness: a process that was dispatched and put back to Ready with
\* work left stands beside one that has Terminated.
C11_Witness ==
    /\ pc = "loop"
    /\ \E i \in 1..Len(processes) :
          /\ processes[i].state = "READY" /\ processes[i].hasStarted
          /\ processes[i].remainingTime < processes[i].burstTime
    /\ \E j \in 1..Len(processes) : processes[j].state = "TERMINATED"

\* remainingTime = 0 exactly for Terminated processes, and never negative.
RemainingMatchesState(procs) ==
    \A i \in 1..Len(procs) :
        /\ procs[i].remainingTime >= 0
        /\ (procs[i].remainingTime = 0) <=> (procs[i].state = "TERMINATED")

remainingOf(procs, pid) ==
    procs[CHOOSE i \in 1..Len(procs) : procs[i].pid = pid].remainingTime

\* C12: at every point of a run and after it remainingTime = 0 holds exactly
\* for the Terminated processes, and within a run remainingTime is never
\* negative and never grows.
C12_RemainingTime ==
    /\ [](RemainingMatchesState(processes))
    /\ [][/\ pc = "exec" => RemainingMatchesState(afterExecute)
          /\ InRun =>
                \A i \in 1..Len(processes) :
                    remainingOf(processes', processes[i].pid)
                        <= processes[i].remainingTime]_vars

\* C12 witness: a process part of the way through its burst.
C12_Witness ==
    /\ InRun
    /\ \E i \in 1..Len(processes) :
          /\ processes[i].remainingTime > 0
          /\ processes[i].remainingTime < processes[i].burstTime
          /\ processes[i].state # "TERMINATED"

\* ------------------------------------------------- Process, called directly
\* A Process object on its own, as the unit tests drive it: execute() with
\* any slice, on a fresh, a part-run or a finished process, and reset().
procOtherVars ==
    <<alg, config, readyQueue, timeline, metrics, currentTime, contextSwitches,
      currentProcess, pc, runNo, processQueue, lastProcess, processIdx,
      currentProcessIdx, waitingSince, completedProcesses, queues,
      activeQueue, lastBoostTime, firstRun, constructed>>

InitProcess ==
    /\ alg = "PROC"
    /\ config = Config(DefaultTimeQuantum, 0, DefaultNumQueues, TRUE,
                       DefaultAgingThreshold, FALSE, 0)
    /\ processes \in ProcessLists(1, 0..MaxPriority)
    /\ queues = <<>>
    /\ InitCommon

ProcExecute ==
    /\ alg = "PROC"
    /\ \E t \in 0..MaxSlice :
          /\ processes' = <<execute(processes[1], t)>>
          /\ lastCall' = [op |-> "execute", before |-> processes[1],
                          timeSlice |-> t,
                          returned |-> executedTime(processes[1], t)]
    /\ UNCHANGED procOtherVars

ProcReset ==
    /\ alg = "PROC"
    /\ processes' = <<ProcessReset(processes[1])>>
    /\ lastCall' = [op |-> "reset", before |-> processes[1]]
    /\ UNCHANGED procOtherVars

NextProcess == ProcExecute \/ ProcReset
SpecProcess == InitProcess /\ [][NextProcess]_vars

\* C13: execute(t), t >= 0, returns min(t, remainingTime before the call)
\* and lowers remainingTime by exactly what it returns; on a process whose
\* remainingTime is 0 it returns 0 and changes no field.
C13_ExecuteContract ==
    (alg = "PROC" /\ lastCall.op = "execute") =>
        LET before == lastCall.before
            after == processes[1]
        IN  /\ lastCall.returned = Min(lastCall.timeSlice, before.remainingTime)
            /\ after.remainingTime = before.remainingTime - lastCall.returned
            /\ before.remainingTime = 0 =>
                  (lastCall.returned = 0 /\ after = before)

\* C13 witness: a slice longer than the work left was asked for, and a
\* finished process was executed again.
C13_Witness ==
    /\ alg = "PROC" /\ lastCall.op = "execute"
    /\ lastCall.before.remainingTime = 0
    /\ lastCall.before.state = "TERMINATED"
    /\ lastCall.timeSlice > 0

procOf(procs, pid) == procs[CHOOSE i \in 1..Len(procs) : procs[i].pid = pid]

\* C14: within one run a process's responseTime is written only on its
\* first dispatch and its completionTime only when it terminates; once
\* written, neither changes.
C14_WrittenOnce ==
    [][InRun =>
        \A i \in 1..Len(processes) :
            LET p == processes[i]
                q == procOf(processes', p.pid)
            IN  /\ q.responseTime # p.responseTime =>
                      (~p.hasStarted /\ p.responseTime = -1)
                /\ q.completionTime # p.completionTime =>
                      (/\ p.state # "TERMINATED" /\ q.state = "TERMINATED"
                       /\ p.completionTime = 0)]_vars

\* C14 witness: a process dispatched a second time after being put back,
\* beside one that has completed.
C14_Witness ==
    /\ pc = "exec"
    /\ processes[runningIdx].remainingTime < processes[runningIdx].burstTime
    /\ processes[runningIdx].responseTime >= 0
    /\ \E j \in 1..Len(processes) :
          processes[j].state = "TERMINATED" /\ processes[j].completionTime > 0

\* The execution entries of one PID, by position in the timeline.
execEntries(tl, pid) ==
    {k \in 1..Len(tl) : tl[k].processId = pid /\ ~tl[k].isContextSwitch}

\* The start tick of the first execution entry of a PID that has one.
firstStart(tl, pid) ==
    tl[CHOOSE k \in execEntries(tl, pid) :
            \A l \in execEntries(tl, pid) : k <= l].startTime

\* C15: at the end of run() the responseTime of every process that ran is
\* the start tick of its first execution entry minus its arrivalTime.
C15_ResponseIsFirstStart ==
    (pc = "done" /\ runNo > 0) =>
        \A i \in 1..Len(processes) :
            execEntries(timeline, processes[i].pid) # {} =>
                processes[i].responseTime =
                    firstStart(timeline, processes[i].pid) - processes[i].arrivalTime

\* No aging decrement has been applied: every priority is as constructed.
NoAgingYet(procs) ==
    \A i \in 1..Len(procs) :
        procs[i].priority = procOf(constructed, procs[i].pid).priority

\* The positions that are Ready at the dispatch point of this iteration.
readyAtDispatch ==
    {i \in 1..Len(processes) : afterArrivals[i].state = "READY"}

\* C16: when the Priority scheduler dispatches among Ready processes with
\* pairwise distinct priority values and no aging decrement applied so far,
\* it dispatches the one with the lowest priority value.
C16_LowestValueFirst ==
    [][(/\ alg = "PRIO" /\ pc = "loop" /\ pc' = "exec"
        /\ currentProcessIdx' \in readyAtDispatch
        /\ NoAgingYet(processes')
        /\ \A i, j \in readyAtDispatch :
              i # j => processes[i].priority # processes[j].priority)
       => \A i \in readyAtDispatch :
              processes[currentProcessIdx'].priority <= processes[i].priority]_vars

\* C16 witness: two processes arrived at 0 with distinct priorities, the
\* second in vector order has the lower value and holds the first dispatch.
C16_Witness ==
    /\ alg = "PRIO" /\ pc = "exec" /\ timeline = <<>>
    /\ Len(processes) = 2 /\ currentProcessIdx = 2
    /\ processes[1].arrivalTime = 0 /\ processes[2].arrivalTime = 0
    /\ processes[2].priority < processes[1].priority
    /\ NoAgingYet(processes)

\* ------------------------------------------- Priority: the aging scenario
\* Preemptive Priority with aging on, two processes that both arrive at 0,
\* with bursts long enough for aging to act several times.
InitAging ==
    /\ alg = "PRIO"
    /\ config \in {Config(DefaultTimeQuantum, cs, DefaultNumQueues, TRUE, th, TRUE, 0) :
                      cs \in 0..MaxCS, th \in 1..MaxAgingThreshold}
    /\ processes \in {<<Process(0, f[1], f[2], 0), Process(1, f[3], f[4], 0)>> :
                         f \in (0..(MaxPriority + 1)) \X (1..MaxLongBurst)
                                \X (0..(MaxPriority + 1)) \X (1..MaxLongBurst)}
    /\ queues = <<>>
    /\ InitCommon

SpecAging == InitAging /\ [][NextPrio]_vars

\* C17: preemptive Priority with aging, threshold T: of two processes H and
\* L that both arrive at 0 with priority values h < l, if H's burst exceeds
\* (l - h + 1) * T plus the context-switch cost, L's first execution entry
\* starts before H terminates.  Read at the end of the first run().
C17_AgingOvertakes ==
    (/\ alg = "PRIO" /\ pc = "done" /\ runNo = 1
     /\ config.preemptive /\ config.agingEnabled /\ Len(processes) = 2)
    => \A i, j \in 1..2 :
          LET H == processes[i]
              L == processes[j]
              h == procOf(constructed, H.pid).priority
              l == procOf(constructed, L.pid).priority
          IN  (/\ h < l
               /\ H.arrivalTime = 0 /\ L.arrivalTime = 0
               /\ H.burstTime > (l - h + 1) * config.agingThreshold
                                   + config.contextSwitchTime)
              => firstStart(timeline, L.pid) < H.completionTime

\* ------------------------------------------- MLFQ: the demotion scenario
\* A long process alone, or together with a short one; everything arrives
\* at 0 (the test MultilevelFeedbackQueueDemotion, over all configurations).
MaxDemotionBurst == 8

InitDemotion ==
    /\ alg = "MLFQ"
    /\ config \in ConfigsMLFQ
    /\ processes \in
          {<<Process(0, 0, b, 0)>> : b \in 1..MaxDemotionBurst}
          \cup {<<Process(0, 0, b, 0), Process(1, 0, c, 0)>> :
                   b \in 1..MaxDemotionBurst, c \in 1..MaxBurst}
    /\ queues = EmptyQueues(config.numQueues)
    /\ InitCommon

SpecDemotion == InitDemotion /\ [][NextMLFQ]_vars

\* C18: MLFQ.  A dispatch raises the queue level of the dispatched process
\* from k to k+1 only if it consumed exactly quantum[k] ticks and left work
\* to do; every such dispatch below the last level raises the level by
\* exactly one, at the last level the level stays, and no other change of
\* the level happens in a dispatch.
C18_DemotionRule ==
    [][(alg = "MLFQ" /\ pc = "exec") =>
          LET p == processes[processIdx]
              q == processes'[processIdx]
              k == p.queueLevel
              used == p.remainingTime - q.remainingTime
              whole == used = mlfqQuantums(k, config) /\ q.remainingTime > 0
          IN  /\ q.queueLevel \in {k, k + 1}
              /\ q.queueLevel = k + 1 => whole
              /\ (whole /\ k < config.numQueues - 1) => q.queueLevel = k + 1
              /\ (whole /\ k = config.numQueues - 1) => q.queueLevel = k
              /\ \A i \in 1..Len(processes) :
                    i # processIdx => processes'[i].queueLevel = processes[i].queueLevel
      ]_vars

\* A process that was demoted twice: it waits at level 2 and its last
\* dispatch consumed the whole quantum of level 1.
C18_Witness ==
    /\ alg = "MLFQ" /\ pc = "loop" /\ timeline # <<>>
    /\ \E i \in 1..Len(processes) :
          LET e == timeline[Len(timeline)]
          IN  /\ processes[i].state = "READY" /\ processes[i].queueLevel = 2
              /\ e.processId = processes[i].pid
              /\ e.endTime - e.startTime = mlfqQuantums(1, config)

\* The quanta of all levels together.
RECURSIVE sumQuanta(_, _)
sumQuanta(levels, cfg) ==
    IF levels = 0 THEN 0
    ELSE mlfqQuantums(levels - 1, cfg) + sumQuanta(levels - 1, cfg)

\* One process, arrival 0, burst above the sum of the level quanta, and no
\* boost so far in this run (a boost stamps lastBoostTime with a time > 0).
LongAloneNoBoost ==
    /\ alg = "MLFQ" /\ Len(processes) = 1
    /\ processes[1].arrivalTime = 0
    /\ processes[1].burstTime > sumQuanta(config.numQueues, config)
    /\ lastBoostTime = 0

\* C19: MLFQ, a single process arriving at 0 whose burst exceeds the sum of
\* the level quanta, no boost fired yet: its n-th dispatch (n = 0, 1, ...)
\* is from level n until the last level numQueues-1 is reached, and every
\* later dispatch is from the last level; the run ends at the last level
\* after more than numQueues dispatches.
C19_LevelsClimb ==
    LET last == config.numQueues - 1
        n == Len(timeline)
    IN  /\ (LongAloneNoBoost /\ pc = "exec")
            => /\ activeQueue = Min(n, last)
               /\ processes[processIdx].queueLevel = activeQueue
        /\ (LongAloneNoBoost /\ pc = "done")
            => /\ processes[1].queueLevel = last
               /\ n > config.numQueues

\* The fourth dispatch of the process, from the last of three levels.
C19_Witness ==
    /\ LongAloneNoBoost /\ pc = "exec"
    /\ config.numQueues = 3 /\ Len(timeline) = 3
    /\ timeline[1].endTime - timeline[1].startTime
          < timeline[2].endTime - timeline[2].startTime
    /\ processes[1].queueLevel = 2

\* ------------------------------------------- Round Robin: longer bursts
\* Up to two processes whose bursts span several quanta.
InitSlices ==
    /\ alg = "RR"
    /\ config \in ConfigsRR
    /\ processes \in
          UNION {{[i \in 1..n |-> Process(i - 1, 0, f[i][1], f[i][2])] :
                    f \in [1..n -> (1..MaxLongBurst) \X (0..1)]} : n \in 1..2}
    /\ queues = <<>>
    /\ InitCommon

SpecSlices == InitSlices /\ [][NextRR]_vars

\* C20: Round Robin.  Every execution entry of the timeline lasts at least
\* one tick and at most the configured quantum, and an entry shorter than
\* the quantum is the last execution entry of its process.
C20_SliceWithinQuantum ==
    alg = "RR" =>
        \A k \in 1..Len(timeline) :
            LET e == timeline[k]
                d == e.endTime - e.startTime
            IN  (~e.isContextSwitch /\ e.processId >= 0)
                => /\ 1 <= d
                   /\ d <= rrTimeQuantum(config)
                   /\ d < rrTimeQuantum(config)
                        => \A l \in execEntries(timeline, e.processId) : l <= k

\* A process that ran a whole quantum of two ticks, was dispatched again
\* and finished in a shorter entry, with the other process in between.
C20_Witness ==
    /\ alg = "RR" /\ pc = "done" /\ rrTimeQuantum(config) = 2
    /\ \E k, l \in 1..Len(timeline) :
          /\ k + 1 < l
          /\ ~timeline[k].isContextSwitch /\ ~timeline[l].isContextSwitch
          /\ timeline[k].processId >= 0
          /\ timeline[k].processId = timeline[l].processId
          /\ timeline[k].endTime - timeline[k].startTime = 2
          /\ timeline[l].endTime - timeline[l].startTime = 1

\* Scenario A: Round Robin with quantum 4 and context-switch cost 1 on two
\* processes that arrive at 0 with bursts 5 and 3, added in that order.
ScenarioA ==
    /\ alg = "RR" /\ rrTimeQuantum(config) = 4 /\ config.contextSwitchTime = 1
    /\ Len(constructed) = 2
    /\ constructed[1].burstTime = 5 /\ constructed[1].arrivalTime = 0
    /\ constructed[2].burstTime = 3 /\ constructed[2].arrivalTime = 0

\* C21: Scenario A ends with clock 10, exactly 2 context switches, waiting
\* times that sum to 10 (average 5.0 over 2 processes) and turnaround times
\* that sum to 18 (average 9.0).
C21_ScenarioA ==
    (ScenarioA /\ pc = "done") =>
        /\ currentTime = 10
        /\ contextSwitches = 2
        /\ metrics.totalExecutionTime = 10
        /\ metrics.totalContextSwitches = 2
        /\ metrics.processCount = 2
        /\ metrics.sumWaiting = 10
        /\ metrics.sumTurnaround = 18
        /\ procOf(processes, 0).waitingTime + procOf(processes, 1).waitingTime = 10
        /\ procOf(processes, 0).turnaroundTime + procOf(processes, 1).turnaroundTime = 18

\* Scenario A has run to its end: five timeline entries, two of them switches.
C21_Witness ==
    /\ ScenarioA /\ pc = "done" /\ runNo = 1
    /\ Len(timeline) = 5
    /\ timeline[2].isContextSwitch /\ timeline[4].isContextSwitch
    /\ AllTerminated

\* C22: in each of the four algorithms run() on an instance without
\* processes never enters an iteration of its loop, and when it returns the
\* process count is 0, the timeline is empty, the clock and the
\* context-switch counter are 0 and every metric is 0.
C22_EmptyRun ==
    [][processes = <<>> =>
          /\ pc' # "exec"
          /\ pc = "loop" => pc' = "done"
          /\ pc' = "done" =>
                /\ metrics' = ZeroMetrics
                /\ metrics'.processCount = 0
                /\ timeline' = <<>>
                /\ currentTime' = 0
                /\ contextSwitches' = 0
      ]_vars

\* The second run() of an MLFQ instance without processes has returned.
C22_Witness ==
    /\ alg = "MLFQ" /\ processes = <<>> /\ pc = "done" /\ runNo = 2

\* ------------------------------------------------ a second, fresh instance
\* A context-switch counter that all instances would share.
SchedulerNewSharedCounter ==
    [currentTime |-> 0, contextSwitches |-> contextSwitches, currentProcess |-> 0]

\* Scheduler::Scheduler: clock, counter and current process of a new instance.
SchedulerNew ==
    [currentTime |-> 0, contextSwitches |-> 0, currentProcess |-> 0]

\* After the first instance's run() a second instance of the same class is
\* constructed with the same configuration and is given the same processes
\* in the same order.  runNo keeps counting, so the second instance runs once.
NewInstance ==
    /\ pc = "done" /\ runNo = 1 /\ lastCall = NoCall
    /\ lastCall' = [op |-> "construct"]
    /\ processes' = constructed
    /\ currentTime' = SchedulerNew.currentTime
    /\ contextSwitches' = SchedulerNew.contextSwitches
    /\ currentProcess' = SchedulerNew.currentProcess
    /\ readyQueue' = <<>>
    /\ timeline' = <<>>
    /\ metrics' = ZeroMetrics
    /\ pc' = "idle"
    /\ processQueue' = <<>>
    /\ lastProcess' = 0
    /\ processIdx' = 0
    /\ currentProcessIdx' = 0
    /\ waitingSince' = [pid \in 0..(Len(constructed) - 1) |-> -1]
    /\ completedProcesses' = 0
    /\ queues' = IF alg \in {"MLQ", "MLFQ"} THEN EmptyQueues(config.numQueues) ELSE <<>>
    /\ activeQueue' = -1
    /\ lastBoostTime' = 0
    /\ UNCHANGED <<alg, config, runNo, firstRun, constructed>>

NextTwins == Next \/ NewInstance
SpecTwins == Init /\ [][NextTwins]_vars

MaxCost == 3

InitCosts ==
    /\ alg = "RR"
    /\ config \in {Config(DefaultTimeQuantum, cs, DefaultNumQueues, TRUE,
                          DefaultAgingThreshold, FALSE, q) :
                      cs \in 0..MaxCost, q \in 0..MaxQuantum}
    /\ processes \in ProcessListsUpTo(MaxProcsRR, {0})
    /\ queues = <<>>
    /\ InitCommon

SpecCosts == InitCosts /\ [][NextRR]_vars

\* C24: after a Round Robin run over a non-empty process set the useful
\* time of the metrics (total time - idle time - context switches * cost) is
\* above 0 and at most the total time, so that CPU utilization is in (0, 100].
C24_UtilizationInRange ==
    (alg = "RR" /\ pc = "done" /\ runNo > 0 /\ processes # <<>>)
    => /\ metrics.usefulTime = metrics.totalExecutionTime - metrics.totalIdleTime
                                 - contextSwitches * config.contextSwitchTime
       /\ metrics.usefulTime > 0
       /\ metrics.usefulTime <= metrics.totalExecutionTime

\* C25: in every algorithm the timeline is sequential at every moment of a
\* run: each entry has start <= end, and each entry starts no earlier than
\* the entry appended before it ends.
C25_TimelineSequential ==
    \A k \in 1..Len(timeline) :
        /\ timeline[k].startTime <= timeline[k].endTime
        /\ k > 1 => timeline[k].startTime >= timeline[k - 1].endTime

\* A finished Priority run whose timeline has an entry that starts after a
\* gap and one that starts right where the entry before it ends.
C25_Witness ==
    /\ alg = "PRIO" /\ pc = "done" /\ Len(timeline) >= 3
    /\ \E k \in 2..Len(timeline) : timeline[k].startTime > timeline[k - 1].endTime
    /\ \E k \in 2..Len(timeline) : timeline[k].startTime = timeline[k - 1].endTime

\* C26: an MLFQ run in which a process was demoted reports a context-switch
\* count above 0, also when that process is alone.  A process that ends the
\* run at a level above 0 was demoted.
C26_DemotionCountsAsSwitch ==
    (/\ alg = "MLFQ" /\ pc = "done" /\ runNo > 0
     /\ \E i \in 1..Len(processes) : processes[i].queueLevel > 0)
    => metrics.totalContextSwitches > 0

\* --------------------------------------------- reset() of a process in a run
\* Process::reset() called on one of the processes in whatever state an
\* MLFQ run has brought it to.  The run does not go on after that (pc
\* "reset"); reset() may be called again.
ResetDuringRun ==
    /\ alg = "MLFQ"
    /\ \E i \in 1..Len(processes) :
          /\ processes' = [processes EXCEPT ![i] = ProcessReset(@)]
          /\ lastCall' = [op |-> "reset", before |-> processes[i], index |-> i]
    /\ pc' = "reset"
    /\ UNCHANGED <<alg, config, readyQueue, timeline, metrics, currentTime,
                   contextSwitches, currentProcess, runNo, processQueue,
                   lastProcess, processIdx, currentProcessIdx, waitingSince,
                   completedProcesses, queues, activeQueue, lastBoostTime,
                   firstRun, constructed>>

NextReset == NextMLFQ \/ ResetDuringRun
SpecReset == InitDemotion /\ [][NextReset]_vars

\* C27: Process::reset(), in any state a run can bring a process to, sets
\* remainingTime to burstTime, waitingTime and turnaroundTime to 0,
\* responseTime to -1, completionTime and queueLevel to 0, hasStarted to
\* false and state to New, leaves pid, burstTime and arrivalTime as they
\* were, and a second reset changes nothing.
C27_ResetContract ==
    (alg = "MLFQ" /\ lastCall.op = "reset") =>
        LET b == lastCall.before
            a == processes[lastCall.index]
        IN  /\ a.remainingTime = b.burstTime
            /\ a.waitingTime = 0 /\ a.turnaroundTime = 0
            /\ a.responseTime = -1
            /\ a.completionTime = 0 /\ a.queueLevel = 0
            /\ a.hasStarted = FALSE /\ a.state = "NEW"
            /\ a.pid = b.pid /\ a.burstTime = b.burstTime
            /\ a.arrivalTime = b.arrivalTime
            /\ ProcessReset(a) = a

\* reset() was called on a process that had waited, run and been demoted,
\* and with it all the other fields were set.
C27_Witness ==
    /\ alg = "MLFQ" /\ lastCall.op = "reset"
    /\ lastCall.before.queueLevel > 0
    /\ lastCall.before.waitingTime > 0
    /\ lastCall.before.responseTime > 0
    /\ lastCall.before.hasStarted
    /\ lastCall.before.state = "TERMINATED"
    /\ lastCall.before.remainingTime < lastCall.before.burstTime
    /\ processes[lastCall.index].state = "NEW"

\* C28: when Scheduler::checkArrivals(t) returns, no owned process with
\* arrivalTime <= t is still New.  Read at the call that opens each
\* iteration of the Round Robin loop, checkArrivals(currentTime).
C28_ArrivedNotNew ==
    (alg = "RR" /\ pc = "loop" /\ ~isComplete(processes)) =>
        LET after == checkArrivals(processes, currentTime)
        IN  \A i \in 1..Len(after) :
                after[i].arrivalTime <= currentTime => after[i].state # "NEW"

\* C29: a Round Robin dispatch increments the context-switch counter by
\* one, appends one context-switch entry of length contextSwitchTime and
\* advances the clock by contextSwitchTime exactly when a process was
\* executed before and its PID differs from the PID of the process now
\* dispatched; otherwise counter, timeline and clock stay as they are.
C29_SwitchOnlyOnOtherPid ==
    [][(alg = "RR" /\ pc = "loop" /\ pc' = "exec") =>
          LET cost == config.contextSwitchTime
              differs == /\ lastProcess # 0
                         /\ processes[lastProcess].pid # processes'[processIdx'].pid
          IN  IF differs
              THEN /\ contextSwitches' = contextSwitches + 1
                   /\ timeline' = Append(timeline,
                                         [processId |-> -1, startTime |-> currentTime,
                                          endTime |-> currentTime + cost,
                                          isContextSwitch |-> TRUE])
                   /\ currentTime' = currentTime + cost
              ELSE UNCHANGED <<contextSwitches, timeline, currentTime>>
      ]_vars

\* A process ran two slices in a row without a switch, and the dispatch of
\* the next process has just charged one tick for the switch.
C29_Witness ==
    /\ alg = "RR" /\ pc = "exec" /\ Len(timeline) = 3
    /\ config.contextSwitchTime = 1 /\ contextSwitches = 1
    /\ ~timeline[1].isContextSwitch /\ ~timeline[2].isContextSwitch
    /\ timeline[1].processId = timeline[2].processId
    /\ timeline[1].processId >= 0
    /\ timeline[3].isContextSwitch
    /\ timeline[3].endTime = currentTime
    /\ processes[processIdx].pid # timeline[2].processId

\* The ring of Round Robin is empty at the head of an iteration, after the
\* arrivals of the current tick were taken in.
ringEmptyNow ==
    enqueueArrived(processQueue, checkArrivals(processes, currentTime),
                   currentTime, 0) = <<>>

\* The last timeline entry is an idle entry that ends at the current tick.
justIdled ==
    /\ timeline # <<>>
    /\ timeline[Len(timeline)].processId = -1
    /\ ~timeline[Len(timeline)].isContextSwitch
    /\ timeline[Len(timeline)].endTime = currentTime

\* C30: Round Robin.  Whenever the ring is empty at tick t while some
\* process has not yet arrived, one step sets the clock to the smallest
\* arrival time above t and appends exactly one idle entry (PID -1, not a
\* context switch) from t to that tick; and the process dispatched next
\* after such a jump is one that arrives at that tick.
C30_IdleJump ==
    [][/\ (/\ alg = "RR" /\ pc = "loop" /\ ~isComplete(processes)
           /\ ringEmptyNow
           /\ \E i \in 1..Len(processes) : processes[i].arrivalTime > currentTime)
          => LET later == {processes[i].arrivalTime : i \in
                             {j \in 1..Len(processes) :
                                 processes[j].arrivalTime > currentTime}}
                 first == CHOOSE t \in later : \A u \in later : t <= u
             IN  /\ currentTime' = first
                 /\ timeline' = Append(timeline,
                                       [processId |-> -1, startTime |-> currentTime,
                                        endTime |-> first, isContextSwitch |-> FALSE])
                 /\ pc' = "loop"
       /\ (alg = "RR" /\ pc = "loop" /\ justIdled)
          => /\ pc' = "exec"
             /\ processes'[processIdx'].arrivalTime = currentTime
      ]_vars

\* The CPU idled from 0 to 2 in one entry and the process that arrives at
\* tick 2 has been dispatched.
C30_Witness ==
    /\ alg = "RR" /\ pc = "exec" /\ Len(timeline) = 1
    /\ timeline[1] = [processId |-> -1, startTime |-> 0, endTime |-> 2,
                      isContextSwitch |-> FALSE]
    /\ currentTime = 2
    /\ processes[processIdx].arrivalTime = 2
    /\ processes[processIdx].state = "RUNNING"

\* C31: non-preemptive Priority.  No process ever has more than one
\* execution entry, an execution entry lasts the whole burst of its
\* process, and when run() has returned every process has exactly one.
C31_RunsToCompletion ==
    (alg = "PRIO" /\ ~config.preemptive /\ runNo > 0) =>
        \A i \in 1..Len(processes) :
            LET es == execEntries(timeline, processes[i].pid)
            IN  /\ Cardinality(es) <= 1
                /\ \A k \in es :
                      timeline[k].endTime - timeline[k].startTime = processes[i].burstTime
                /\ pc = "done" => Cardinality(es) = 1

\* A non-preemptive run has ended in which a process with a better
\* priority arrived while a two-tick process was executing.
C31_Witness ==
    /\ alg = "PRIO" /\ ~config.preemptive /\ pc = "done"
    /\ \E i, j \in 1..Len(processes) :
          \E k \in execEntries(timeline, processes[i].pid) :
              /\ processes[i].burstTime = 2
              /\ procOf(constructed, processes[j].pid).priority
                    < procOf(constructed, processes[i].pid).priority
              /\ timeline[k].startTime < processes[j].arrivalTime
              /\ processes[j].arrivalTime < timeline[k].endTime

\* C32: Priority with aging.  At the aging check of every iteration each
\* Ready process that has waited agingThreshold ticks or more since its
\* waiting-since stamp (a process without a stamp is stamped now) and whose
\* priority value is above 0 gets that value lowered by exactly one and its
\* stamp set to the current tick; no other priority changes; the stamp of
\* the process that is dispatched is cleared; a priority value never goes
\* below 0 and never increases in any step.
C32_AgingRule ==
    /\ [](alg = "PRIO" => \A i \in 1..Len(processes) : processes[i].priority >= 0)
    /\ [][alg = "PRIO" =>
            \A i \in 1..Len(processes) : processes'[i].priority <= processes[i].priority]_vars
    /\ [][(alg = "PRIO" /\ pc = "loop" /\ completedProcesses < Len(processes)) =>
            \A i \in 1..Len(processes) :
                LET p == afterArrivals[i]
                    q == processes'[i]
                    stamp == IF waitingSince[p.pid] = -1 THEN currentTime
                             ELSE waitingSince[p.pid]
                    due == /\ config.agingEnabled /\ p.state = "READY"
                           /\ currentTime - stamp >= config.agingThreshold
                           /\ p.priority > 0
                    dispatched == pc' = "exec" /\ currentProcessIdx' = i
                IN  /\ q.priority = IF due THEN p.priority - 1 ELSE p.priority
                    /\ dispatched => waitingSince'[p.pid] = -1
                    /\ (due /\ ~dispatched) => waitingSince'[p.pid] = currentTime
         ]_vars

\* A process that was added with priority value 2 has been aged down to 0
\* while it waits, stamped, for the process that is executing.
C32_Witness ==
    /\ alg = "PRIO" /\ pc = "exec" /\ config.agingEnabled
    /\ \E i \in 1..Len(processes) :
          /\ procOf(constructed, processes[i].pid).priority = 2
          /\ processes[i].priority = 0
          /\ processes[i].state = "READY"
          /\ waitingSince[processes[i].pid] > 0
          /\ i # currentProcessIdx

\* ------------------------------------- findHighestPriority, called directly
\* Three processes in any mix of states, priorities and arrival times, and
\* findHighestPriority() evaluated at some tick.
FindStates == {"NEW", "READY", "TERMINATED"}

InitFind ==
    /\ alg = "FIND"
    /\ config = Config(DefaultTimeQuantum, 0, DefaultNumQueues, FALSE,
                       DefaultAgingThreshold, FALSE, 0)
    /\ processes \in
          {[i \in 1..3 |-> [Process(i - 1, f[i][1], 1, f[i][2]) EXCEPT !.state = f[i][3]]] :
              f \in [1..3 -> (0..MaxPriority) \X (0..MaxArrival) \X FindStates]}
    /\ queues = <<>>
    /\ InitCommon

FindCall ==
    /\ alg = "FIND"
    /\ \E now \in 0..MaxArrival :
          lastCall' = [op |-> "find", now |-> now,
                       returned |-> findHighestPriority(processes, now)]
    /\ UNCHANGED <<processes, procOtherVars>>

NextFind == FindCall
SpecFind == InitFind /\ [][NextFind]_vars

\* C33: findHighestPriority returns none (0) when no Ready process has
\* arrived; otherwise it returns a Ready, arrived process that has the
\* minimum priority value, among those the earliest arrival time, and among
\* those the first position in the vector.
C33_FindOrder ==
    (alg = "FIND" /\ lastCall.op = "find") =>
        LET r == lastCall.returned
            cands == {i \in 1..Len(processes) :
                         /\ processes[i].state = "READY"
                         /\ processes[i].arrivalTime <= lastCall.now}
            Better(a, b) ==
                \/ processes[a].priority < processes[b].priority
                \/ /\ processes[a].priority = processes[b].priority
                   /\ processes[a].arrivalTime < processes[b].arrivalTime
                \/ /\ processes[a].priority = processes[b].priority
                   /\ processes[a].arrivalTime = processes[b].arrivalTime
                   /\ a <= b
        IN  IF cands = {} THEN r = 0
            ELSE r \in cands /\ \A j \in cands : Better(r, j)

\* The call chose the second of three arrived Ready processes: it ties in
\* priority with the first and third, arrived before the first and together
\* with the third.
C33_Witness ==
    /\ alg = "FIND" /\ lastCall.op = "find" /\ lastCall.returned = 2
    /\ \A i \in 1..3 : processes[i].state = "READY" /\ processes[i].arrivalTime <= lastCall.now
    /\ processes[1].priority = processes[2].priority
    /\ processes[3].priority = processes[2].priority
    /\ processes[2].arrivalTime < processes[1].arrivalTime
    /\ processes[3].arrivalTime = processes[2].arrivalTime

\* ------------------------------------------- assignToQueue, called directly
\* A Multilevel Queue scheduler built with any number of queues, and
\* assignToQueue() evaluated for a process of any priority.
MaxAssignQueues == 6
MaxAssignPriority == 9

InitAssign ==
    /\ alg = "ASSIGN"
    /\ config \in {Config(DefaultTimeQuantum, 0, nq, TRUE, DefaultAgingThreshold, FALSE, 0) :
                      nq \in 1..MaxAssignQueues}
    /\ processes \in {<<Process(0, pr, 1, 0)>> : pr \in 0..MaxAssignPriority}
    /\ queues = EmptyQueues(config.numQueues)
    /\ InitCommon

AssignCall ==
    /\ alg = "ASSIGN"
    /\ lastCall' = [op |-> "assign",
                    returned |-> assignToQueue(processes[1], config.numQueues)]
    /\ UNCHANGED <<processes, procOtherVars>>

NextAssign == AssignCall
SpecAssign == InitAssign /\ [][NextAssign]_vars

\* C34: Multilevel Queue with N queues.  A process whose priority value is
\* above 5, or above 2 when N = 1, is assigned to the last queue, N - 1.
C34_LastQueue ==
    (alg = "ASSIGN" /\ lastCall.op = "assign") =>
        LET N == config.numQueues
            pr == processes[1].priority
        IN  (pr > 5 \/ (N = 1 /\ pr > 2)) => lastCall.returned = N - 1

\* C35: Multilevel Queue.  A dispatch takes the process at the front of the
\* lowest-numbered non-empty queue: when a process of queue a is dispatched
\* every queue below a is empty, and the process was the head of queue a
\* (or, if queue a was empty, has just arrived in it).  A process that comes
\* back from its slice with work left is appended to the back of the queue
\* it was taken from, and a slice changes the queues in no other way.
C35_LowestQueueFirst ==
    [][/\ (alg = "MLQ" /\ pc = "loop" /\ pc' = "exec")
          => LET a == activeQueue'
             IN  /\ a \in 0..(config.numQueues - 1)
                 /\ \A i \in 0..(a - 1) : queues'[i] = <<>> /\ queues[i] = <<>>
                 /\ IF queues[a] # <<>>
                    THEN processIdx' = Head(queues[a])
                    ELSE mlArrives(processes[processIdx'], currentTime)
       /\ (alg = "MLQ" /\ pc = "exec")
          => IF processes'[processIdx].remainingTime > 0
             THEN /\ queues' = [queues EXCEPT ![activeQueue] = Append(@, processIdx)]
                  /\ processes'[processIdx].state = "READY"
             ELSE queues' = queues
      ]_vars

\* A process has been dispatched from queue 1 while another waits behind it
\* in queue 1 and a third queue below holds nothing; slices ran before.
C35_Witness ==
    /\ alg = "MLQ" /\ pc = "exec" /\ activeQueue = 1
    /\ queues[0] = <<>> /\ queues[1] # <<>>
    /\ timeline # <<>>
    /\ processes[processIdx].state = "RUNNING"

\* How often position i occurs in a queue.
timesIn(q, i) == Cardinality({k \in 1..Len(q) : q[k] = i})

\* C36: MLFQ with aging.  When an iteration of the loop starts with
\* now - lastBoostTime >= agingInterval, then after the boost and up to the
\* dispatch of that iteration lastBoostTime is now, every non-terminated
\* process has queue level 0, all queues but queue 0 are empty and queue 0
\* holds every Ready process exactly once and nothing else.  So while a
\* process sits at a level above 0 the last boost is never further back
\* than agingInterval - 1 ticks plus one context switch and one slice.
C36_Boost ==
    /\ [][(/\ alg = "MLFQ" /\ pc = "loop" /\ completedProcesses < Len(processes)
           /\ config.agingEnabled
           /\ currentTime - lastBoostTime >= config.agingThreshold * 5)
          => /\ lastBoostTime' = currentTime
             /\ \A i \in 1..Len(processes) :
                   /\ processes'[i].state # "TERMINATED" => processes'[i].queueLevel = 0
                   /\ timesIn(queues'[0], i)
                        = IF processes'[i].state = "READY" THEN 1 ELSE 0
             /\ \A k \in 1..(config.numQueues - 1) : queues'[k] = <<>>
         ]_vars
    /\ [](/\ alg = "MLFQ" /\ pc \in {"loop", "exec"} /\ config.agingEnabled
          /\ \E i \in 1..Len(processes) :
                processes[i].state # "TERMINATED" /\ processes[i].queueLevel > 0
          => currentTime - lastBoostTime
                <= (config.agingThreshold * 5 - 1) + config.contextSwitchTime
                   + mlfqQuantums(config.numQueues - 1, config))

\* A boost has just brought back to queue 0 a process that waits there
\* while the other one is dispatched; a slice of a lower level ran before.
C36_Witness ==
    /\ alg = "MLFQ" /\ pc = "exec" /\ config.agingEnabled
    /\ lastBoostTime > 0
    /\ lastBoostTime + config.contextSwitchTime >= currentTime
    /\ Len(processes) = 2 /\ queues[0] # <<>>
    /\ \A i \in 1..2 : processes[i].state # "TERMINATED" /\ processes[i].queueLevel = 0
    /\ \E k \in 1..Len(timeline) :
          timeline[k].endTime - timeline[k].startTime > config.timeQuantum

\* The execution entries of a timeline, in order (idle and context-switch
\* entries left out).
RECURSIVE executionsOf(_)
executionsOf(tl) ==
    IF tl = <<>> THEN <<>>
    ELSE LET e == tl[Len(tl)]
             rest == executionsOf(SubSeq(tl, 1, Len(tl) - 1))
         IN  IF ~e.isContextSwitch /\ e.processId >= 0 THEN Append(rest, e) ELSE rest

\* Pairs of consecutive execution entries that belong to different PIDs.
pidChanges(tl) ==
    LET ex == executionsOf(tl)
    IN  Cardinality({k \in 1..(Len(ex) - 1) : ex[k].processId # ex[k + 1].processId})

\* C37: in each of the four algorithms, when the first run() of a fresh
\* instance has returned, the context-switch counter equals the number of
\* pairs of consecutive execution entries of the timeline that belong to
\* different PIDs.
C37_SwitchesMatchTimeline ==
    (pc = "done" /\ runNo = 1 /\ lastCall = NoCall) =>
        contextSwitches = pidChanges(timeline)

\* Total length of the execution entries of a timeline.
executionTicks(tl) ==
    LET ex == executionsOf(tl)
    IN  SumOver([k \in 1..Len(ex) |-> ex[k].endTime - ex[k].startTime], Len(ex))

\* The ticks before `now` during which no process was ready: every process
\* had either not arrived yet or completed already.
noneReadyTicks(procs, now) ==
    Cardinality({t \in 0..(now - 1) :
        \A i \in 1..Len(procs) :
            \/ procs[i].arrivalTime > t
            \/ procs[i].state = "TERMINATED" /\ procs[i].completionTime <= t})

\* C38: when the first run() of a fresh instance has returned, the final
\* clock equals the length of all execution entries plus the ticks during
\* which no process was ready plus contextSwitches * contextSwitchTime, the
\* overhead that calculateMetrics reports.
C38_ClockAccounted ==
    (pc = "done" /\ runNo = 1 /\ lastCall = NoCall) =>
        currentTime = executionTicks(timeline)
                      + noneReadyTicks(processes, currentTime)
                      + contextSwitches * config.contextSwitchTime

\* ------------------------------------------------- the queues at a dispatch
\* The processes and the ready queues at the point of an iteration where
\* the next process is picked: after the boost (MLFQ) and the admission of
\* arrivals at the head of the loop, before the pop.  Round Robin has one
\* queue, processQueue, shown as queue 0.
dispatchProcs ==
    IF alg = "MLFQ"
    THEN LET procs0 == IF boostDue(currentTime, lastBoostTime, config)
                       THEN priorityBoostProcs(processes) ELSE processes
         IN  [i \in 1..Len(procs0) |->
                IF mlArrives(procs0[i], currentTime)
                THEN [procs0[i] EXCEPT !.state = "READY", !.queueLevel = 0]
                ELSE procs0[i]]
    ELSE afterArrivals

dispatchQueues ==
    IF alg = "RR"
    THEN [q \in {0} |-> enqueueArrived(processQueue, dispatchProcs, currentTime, 0)]
    ELSE IF alg = "MLQ"
    THEN [q \in 0..(config.numQueues - 1) |->
            LET Comes(i) == /\ mlArrives(processes[i], currentTime)
                            /\ mlqArrivalQueue(processes[i]) = q
            IN  queues[q] \o Positions(processes, Comes)]
    ELSE LET queues0 == IF boostDue(currentTime, lastBoostTime, config)
                        THEN priorityBoostQueues(processes, config.numQueues)
                        ELSE queues
             Comes(i) == mlArrives(processes[i], currentTime)
         IN  [queues0 EXCEPT ![0] = @ \o Positions(processes, Comes)]

AtDispatch ==
    /\ alg \in {"RR", "MLQ", "MLFQ"} /\ pc = "loop"
    /\ IF alg = "RR" THEN ~isComplete(processes)
       ELSE completedProcesses < Len(processes)

timesQueued(Q, i) ==
    SumOver([k \in 1..Cardinality(DOMAIN Q) |-> timesIn(Q[k - 1], i)],
            Cardinality(DOMAIN Q))

\* C39: Round Robin, Multilevel Queue and MLFQ.  At every dispatch point
\* each process that has arrived (arrivalTime <= now) and is not Terminated
\* is exactly once in the ready queues, no New or Terminated process is in
\* any queue, and in MLFQ a process in queue k has queueLevel k.
C39_QueuesHoldTheReady ==
    AtDispatch =>
        LET P == dispatchProcs
            Q == dispatchQueues
        IN  /\ \A i \in 1..Len(P) :
                  /\ (P[i].arrivalTime <= currentTime /\ P[i].state # "TERMINATED")
                        => timesQueued(Q, i) = 1
                  /\ P[i].state \in {"NEW", "TERMINATED"} => timesQueued(Q, i) = 0
            /\ alg = "MLFQ" =>
                  \A k \in DOMAIN Q : \A n \in 1..Len(Q[k]) : P[Q[k][n]].queueLevel = k

\* C40: with a base quantum of at least 1, every dispatch of a process that
\* has work left executes at least one tick, in each algorithm, and the
\* Multilevel Queue loop is left only when the number of Terminated
\* processes equals the number of processes.
C40_EveryDispatchRuns ==
    /\ [][(/\ pc = "exec" /\ config.timeQuantum >= 1
           /\ processes[runningIdx].remainingTime > 0)
          => currentTime' >= currentTime + 1]_vars
    /\ []((alg = "MLQ" /\ pc = "done" /\ runNo > 0 /\ lastCall = NoCall)
          => isComplete(processes))
====
